---- MODULE Spec2Model ----
(***************************************************************************)
(* A model of the number-format engine: the format-string compiler         *)
(* (src/src/parser), the section selector (src/src/formatter/sections.rs)  *)
(* and the standard numeric renderer (src/src/formatter).                  *)
(*                                                                         *)
(* The engine is a library of pure functions.  Each specification below   *)
(* draws the arguments of one entry point from a bounded set in its Init   *)
(* and applies the function in one action.                                 *)
(*                                                                         *)
(* Characters are one-character strings, Rust strings are sequences of     *)
(* characters.  A FormatToken is a record [k |-> variant, c |-> payload],  *)
(* the payload being the characters of LiteralChar / Fill / SkipWidth /    *)
(* QuotedText and empty for every other variant.                           *)
(***************************************************************************)
EXTENDS Integers, Sequences, FiniteSets, TLC

VARIABLES
    pc,         \* position of the call in progress
    value,      \* select_section: the f64 argument
    format,     \* select_section: the NumberFormat argument
    selected,   \* select_section: the slot of the returned section
    input,      \* parse_number_format: the format string
    compiled,   \* parse_number_format: the Result it returns
    tokens,     \* resolve_month_minute_ambiguity_in_section: the vector on entry
    resolved,   \* resolve_month_minute_ambiguity_in_section: the vector on return
    number,     \* format_number: the value to render
    rendered,   \* format_number: the string it returns
    call,       \* the arguments of a call of one of the other formatters
    returned,   \* what that call returned
    LOCALE_CONTEXT  \* point_in_time.rs: the thread-local locale code

selVars == <<value, format, selected>>
parseVars == <<input, compiled, tokens, resolved>>
renderVars == <<number, rendered>>
callVars == <<call, returned, LOCALE_CONTEXT>>
vars == <<pc, value, format, selected, input, compiled, tokens, resolved, number, rendered,
          call, returned, LOCALE_CONTEXT>>

None == [some |-> FALSE]
Some(x) == [some |-> TRUE, v |-> x]

\* An f64 given by its decimal expansion: sign, integer part and the digits
\* after the decimal point.
Dec(neg, i, f) == [neg |-> neg, i |-> i, f |-> f]
NoNumber == Dec(FALSE, 0, <<>>)
NotRendered == [kind |-> "none", fallback |-> FALSE, out |-> <<>>]

(***************************************************************************)
(* Bounds of the selector's arguments.                                     *)
(***************************************************************************)
MaxAbsValue == 2
MaxCondValue == 1

\* An f64 argument: an integer, or NaN.
F(n) == [nan |-> FALSE, n |-> n]
NaN == [nan |-> TRUE, n |-> 0]
Values == {F(n) : n \in -MaxAbsValue..MaxAbsValue} \cup {NaN}
CondValues == (-MaxCondValue..MaxCondValue)

(***************************************************************************)
(* types.rs: ComparisonOperator and Condition.                             *)
(***************************************************************************)
ComparisonOperator == {"Eq", "Gt", "Lt", "Ge", "Le", "Ne"}
Condition == [operator : ComparisonOperator, value : CondValues]

\* The comparison `match condition.operator { ... }` of select_section on f64
\* operands: every comparison with NaN is false except `!=`.
Matches(v, condition) ==
    IF v.nan THEN condition.operator = "Ne"
    ELSE CASE condition.operator = "Eq" -> v.n = condition.value
           [] condition.operator = "Gt" -> v.n > condition.value
           [] condition.operator = "Lt" -> v.n < condition.value
           [] condition.operator = "Ge" -> v.n >= condition.value
           [] condition.operator = "Le" -> v.n <= condition.value
           [] condition.operator = "Ne" -> v.n # condition.value

\* `value < 0.0` and `value == 0.0` on an f64.
IsNegativeF(v) == ~v.nan /\ v.n < 0
IsZeroF(v) == ~v.nan /\ v.n = 0

\* A section as select_section sees it: only `condition` is read.
CondOpt == {None} \cup {Some(c) : c \in Condition}
OptCondSection == {None} \cup {Some([condition |-> c]) : c \in CondOpt}

\* NumberFormat values parse_number_format can return, seen through their
\* conditions: a zero section needs a negative section before it and at most
\* two sections carry a condition.
NumConds(f) ==
    (IF f.positive_section.condition.some THEN 1 ELSE 0)
    + (IF f.negative_section.some /\ f.negative_section.v.condition.some THEN 1 ELSE 0)
    + (IF f.zero_section.some /\ f.zero_section.v.condition.some THEN 1 ELSE 0)

SelectorFormats ==
    {f \in [positive_section : {[condition |-> c] : c \in CondOpt},
            negative_section : OptCondSection,
            zero_section : OptCondSection] :
        /\ (f.zero_section.some => f.negative_section.some)
        /\ NumConds(f) <= 2}

(***************************************************************************)
(* formatter/sections.rs: select_section.  The result is the slot of the   *)
(* section whose reference is returned.                                    *)
(***************************************************************************)
SelectSectionSignFirst(v, f) ==
    IF IsNegativeF(v) /\ f.negative_section.some
          /\ ~f.negative_section.v.condition.some
    THEN "negative"
    ELSE IF IsZeroF(v) /\ f.zero_section.some /\ ~f.zero_section.v.condition.some
    THEN "zero"
    ELSE IF f.positive_section.condition.some
          /\ Matches(v, f.positive_section.condition.v)
    THEN "positive"
    ELSE IF f.negative_section.some /\ f.negative_section.v.condition.some
          /\ Matches(v, f.negative_section.v.condition.v)
    THEN "negative"
    ELSE IF f.zero_section.some /\ f.zero_section.v.condition.some
          /\ Matches(v, f.zero_section.v.condition.v)
    THEN "zero"
    ELSE "positive"

SelectSectionFailedCondBySign(v, f) ==
    IF f.positive_section.condition.some
          /\ Matches(v, f.positive_section.condition.v)
    THEN "positive"
    ELSE IF f.negative_section.some /\ f.negative_section.v.condition.some
          /\ Matches(v, f.negative_section.v.condition.v)
    THEN "negative"
    ELSE IF f.zero_section.some /\ f.zero_section.v.condition.some
          /\ Matches(v, f.zero_section.v.condition.v)
    THEN "zero"
    ELSE IF IsNegativeF(v) /\ f.negative_section.some
    THEN "negative"
    ELSE IF IsZeroF(v) /\ f.zero_section.some
    THEN "zero"
    ELSE "positive"

select_section(v, f) ==
    IF f.positive_section.condition.some
          /\ Matches(v, f.positive_section.condition.v)
    THEN "positive"
    ELSE IF f.negative_section.some /\ f.negative_section.v.condition.some
          /\ Matches(v, f.negative_section.v.condition.v)
    THEN "negative"
    ELSE IF f.zero_section.some /\ f.zero_section.v.condition.some
          /\ Matches(v, f.zero_section.v.condition.v)
    THEN "zero"
    ELSE IF IsNegativeF(v) /\ f.negative_section.some
          /\ ~f.negative_section.v.condition.some
    THEN "negative"
    ELSE IF IsZeroF(v) /\ f.zero_section.some /\ ~f.zero_section.v.condition.some
    THEN "zero"
    ELSE "positive"

(***************************************************************************)
(* The selector's specification.                                           *)
(***************************************************************************)
InitSelect ==
    /\ pc = "select"
    /\ value \in Values
    /\ format \in SelectorFormats
    /\ selected = "none"
    /\ input = <<>> /\ compiled = None /\ tokens = <<>> /\ resolved = <<>>
    /\ number = NoNumber /\ rendered = NotRendered
    /\ call = None /\ returned = None /\ LOCALE_CONTEXT = None

SelectSection ==
    /\ pc = "select"
    /\ selected' = select_section(value, format)
    /\ pc' = "selected"
    /\ UNCHANGED <<value, format>>
    /\ UNCHANGED parseVars
    /\ UNCHANGED renderVars
    /\ UNCHANGED callVars

NextSelect == SelectSection

SpecSelect == InitSelect /\ [][NextSelect]_vars

(***************************************************************************)
(* Claims about select_section.                                            *)
(***************************************************************************)
PosCondHolds == format.positive_section.condition.some
                  /\ Matches(value, format.positive_section.condition.v)
NegCondHolds == format.negative_section.some
                  /\ format.negative_section.v.condition.some
                  /\ Matches(value, format.negative_section.v.condition.v)
ZeroCondHolds == format.zero_section.some
                  /\ format.zero_section.v.condition.some
                  /\ Matches(value, format.zero_section.v.condition.v)
UncondNeg == format.negative_section.some /\ ~format.negative_section.v.condition.some
UncondZero == format.zero_section.some /\ ~format.zero_section.v.condition.some

\* C1: the conditions are tried in the order positive, negative, zero and the
\* first section whose condition is present and satisfied is returned; a
\* positive section whose condition holds is returned whatever the sign of
\* the value and whatever unconditioned sections exist.
C1_ConditionOrder ==
    pc = "selected" =>
        /\ (PosCondHolds => selected = "positive")
        /\ (~PosCondHolds /\ NegCondHolds => selected = "negative")
        /\ (~PosCondHolds /\ ~NegCondHolds /\ ZeroCondHolds => selected = "zero")

C1_Witness ==
    /\ pc = "selected"
    /\ IsNegativeF(value)
    /\ PosCondHolds /\ UncondNeg /\ UncondZero
    /\ selected = "positive"

\* C2: when no condition is satisfied the negative section is returned iff
\* value < 0 and an unconditioned negative section exists, otherwise the zero
\* section iff value == 0 and an unconditioned zero section exists, otherwise
\* the positive section; a section whose condition failed is never chosen by
\* the sign/zero rule.
C2_SignFallback ==
    pc = "selected" /\ ~PosCondHolds /\ ~NegCondHolds /\ ~ZeroCondHolds =>
        /\ (selected = "negative" <=> IsNegativeF(value) /\ UncondNeg)
        /\ (selected = "zero" <=>
               ~(IsNegativeF(value) /\ UncondNeg) /\ IsZeroF(value) /\ UncondZero)
        /\ (selected = "positive" <=>
               ~(IsNegativeF(value) /\ UncondNeg) /\ ~(IsZeroF(value) /\ UncondZero))

C2_Witness ==
    /\ pc = "selected"
    /\ IsNegativeF(value)
    /\ ~PosCondHolds /\ ~NegCondHolds /\ ~ZeroCondHolds
    /\ format.negative_section.some /\ format.negative_section.v.condition.some
    /\ selected = "positive"

(***************************************************************************)
(* Characters and strings.                                                 *)
(***************************************************************************)
UpperLetters == <<"A","B","C","D","E","F","G","H","I","J","K","L","M",
                  "N","O","P","Q","R","S","T","U","V","W","X","Y","Z">>
LowerLetters == <<"a","b","c","d","e","f","g","h","i","j","k","l","m",
                  "n","o","p","q","r","s","t","u","v","w","x","y","z">>
DigitChars == <<"0","1","2","3","4","5","6","7","8","9">>

\* char::to_ascii_lowercase, as Caseless and to_lowercase() use it on ASCII.
Lower(c) ==
    IF \E j \in 1..26 : UpperLetters[j] = c
    THEN LowerLetters[CHOOSE j \in 1..26 : UpperLetters[j] = c]
    ELSE c

IsAsciiDigit(c) == \E j \in 1..10 : DigitChars[j] = c
DigitVal(c) == (CHOOSE j \in 1..10 : DigitChars[j] = c) - 1

\* literal(lit) at position i of s.
StartsWithAt(s, i, lit) ==
    /\ i + Len(lit) - 1 <= Len(s)
    /\ \A j \in 1..Len(lit) : s[i + j - 1] = lit[j]

\* literal(Caseless(lit)) at position i of s.
StartsWithCaselessAt(s, i, lit) ==
    /\ i + Len(lit) - 1 <= Len(s)
    /\ \A j \in 1..Len(lit) : Lower(s[i + j - 1]) = Lower(lit[j])

\* str::contains on the lower-cased string.
ContainsCaseless(s, lit) ==
    \E i \in 1..Len(s) : StartsWithCaselessAt(s, i, lit)

\* The length of the run of characters of `set` that starts at position i:
\* what repeat(n.., one_of(set)) consumes.
RECURSIVE RunLen(_, _, _)
RunLen(s, i, set) ==
    IF i <= Len(s) /\ s[i] \in set THEN 1 + RunLen(s, i + 1, set) ELSE 0

\* The first position >= i of s that holds character c, or 0.
RECURSIVE FindChar(_, _, _)
FindChar(s, i, c) ==
    IF i > Len(s) THEN 0
    ELSE IF s[i] = c THEN i
    ELSE FindChar(s, i + 1, c)

Slice(s, a, b) == IF a > b THEN <<>> ELSE SubSeq(s, a, b)

\* `let v = e; Body(v)`: e is evaluated once and Body reads its value.
Let(e, Body(_)) == CHOOSE x \in {Body(v) : v \in {e}} : TRUE

(***************************************************************************)
(* types.rs: FormatToken.                                                  *)
(***************************************************************************)
Tok(kind) == [k |-> kind, c |-> <<>>]
TokC(kind, chars) == [k |-> kind, c |-> chars]
LiteralChar(ch) == TokC("LiteralChar", <<ch>>)

DigitPlaceholders == {"DigitOrZero", "DigitIfNeeded", "DigitOrSpace"}

\* FormatToken::is_datetime_placeholder
DatetimeKinds ==
    {"YearTwoDigit", "YearFourDigit", "MonthNum", "MonthNumPadded", "MonthAbbr",
     "MonthFullName", "MonthLetter", "DayNum", "DayNumPadded", "WeekdayAbbr",
     "WeekdayFullName", "Hour12Or24", "Hour12Or24Padded", "MinuteNum",
     "MinuteNumPadded", "SecondNum", "SecondNumPadded", "AmPm", "AP",
     "ElapsedHours", "ElapsedMinutes", "ElapsedSeconds",
     "MonthOrMinute1", "MonthOrMinute2"}

is_datetime_placeholder(t) == t.k \in DatetimeKinds

IsNumericOnly(t) == t.k \in DigitPlaceholders \cup {"DecimalPoint"}

\* FormatToken::is_numeric_or_date
is_numeric_or_date(t) ==
    t.k \in DatetimeKinds \cup DigitPlaceholders \cup {"DecimalPoint"}

(***************************************************************************)
(* parser/tokens.rs: one parser per lexeme.  A parser result is            *)
(* [ok, tok, next]: the token and the position after the lexeme.           *)
(***************************************************************************)
Fail == [ok |-> FALSE, tok |-> Tok("none"), next |-> 0]
Ok(t, n) == [ok |-> TRUE, tok |-> t, next |-> n]

\* literal(Caseless(lit)).value(kind)
CaselessLit(s, i, lit, kind) ==
    IF StartsWithCaselessAt(s, i, lit) THEN Ok(Tok(kind), i + Len(lit)) ELSE Fail

\* literal(lit).value(tok)
ExactLit(s, i, lit, tok) ==
    IF StartsWithAt(s, i, lit) THEN Ok(tok, i + Len(lit)) ELSE Fail

\* repeat(min.., one_of(set)).value(kind)
RunAtLeast(s, i, set, min, kind) ==
    LET n == RunLen(s, i, set)
    IN IF n >= min THEN Ok(Tok(kind), i + n) ELSE Fail

\* A four-digit year token that needs four letters.
ParseYearOfFourLetters(s, i) == RunAtLeast(s, i, {"y", "Y"}, 4, "YearFourDigit")

parse_year_four_digit(s, i) == RunAtLeast(s, i, {"y", "Y"}, 3, "YearFourDigit")

\* repeat(1..3, ...): one or two occurrences.
parse_year_two_digit(s, i) ==
    LET n == RunLen(s, i, {"y", "Y"})
    IN IF n >= 1 THEN Ok(Tok("YearTwoDigit"), i + (IF n >= 2 THEN 2 ELSE 1)) ELSE Fail

parse_month_letter(s, i) == CaselessLit(s, i, <<"m","m","m","m","m">>, "MonthLetter")
parse_month_full_name(s, i) == CaselessLit(s, i, <<"m","m","m","m">>, "MonthFullName")
parse_month_abbr(s, i) == CaselessLit(s, i, <<"m","m","m">>, "MonthAbbr")
parse_month_or_minute_padded(s, i) == CaselessLit(s, i, <<"m","m">>, "MonthOrMinute2")
parse_month_or_minute_single(s, i) == CaselessLit(s, i, <<"m">>, "MonthOrMinute1")

parse_day_full_name(s, i) ==
    LET d == RunAtLeast(s, i, {"d", "D"}, 4, "WeekdayFullName")
    IN IF d.ok THEN d ELSE RunAtLeast(s, i, {"a", "A"}, 4, "WeekdayFullName")

parse_day_abbr(s, i) ==
    LET d == CaselessLit(s, i, <<"d","d","d">>, "WeekdayAbbr")
    IN IF d.ok THEN d ELSE CaselessLit(s, i, <<"a","a","a">>, "WeekdayAbbr")

parse_day_padded(s, i) == CaselessLit(s, i, <<"d","d">>, "DayNumPadded")
parse_day_single(s, i) == CaselessLit(s, i, <<"d">>, "DayNum")

parse_hour_padded(s, i) == RunAtLeast(s, i, {"h", "H"}, 2, "Hour12Or24Padded")
parse_hour_single(s, i) == CaselessLit(s, i, <<"h">>, "Hour12Or24")
parse_second_padded(s, i) == RunAtLeast(s, i, {"s", "S"}, 2, "SecondNumPadded")
parse_second_single(s, i) == CaselessLit(s, i, <<"s">>, "SecondNum")

parse_am_pm(s, i) ==
    LET u == ExactLit(s, i, <<"A","M","/","P","M">>, TokC("AmPm", <<"UpperCase">>))
    IN IF u.ok THEN u
       ELSE ExactLit(s, i, <<"a","m","/","p","m">>, TokC("AmPm", <<"LowerCase">>))

parse_a_p(s, i) ==
    LET u == ExactLit(s, i, <<"A","/","P">>, TokC("AP", <<"UpperCase">>))
    IN IF u.ok THEN u
       ELSE ExactLit(s, i, <<"a","/","p">>, TokC("AP", <<"LowerCase">>))

\* delimited("[", Caseless(letter), "]")
Elapsed(s, i, letter, kind) ==
    IF /\ i + 2 <= Len(s)
       /\ s[i] = "[" /\ Lower(s[i + 1]) = letter /\ s[i + 2] = "]"
    THEN Ok(Tok(kind), i + 3) ELSE Fail

parse_elapsed_hours(s, i) == Elapsed(s, i, "h", "ElapsedHours")
parse_elapsed_minutes(s, i) == Elapsed(s, i, "m", "ElapsedMinutes")
parse_elapsed_seconds(s, i) == Elapsed(s, i, "s", "ElapsedSeconds")

parse_digit_or_zero(s, i) == ExactLit(s, i, <<"0">>, Tok("DigitOrZero"))
parse_digit_if_needed(s, i) == ExactLit(s, i, <<"#">>, Tok("DigitIfNeeded"))
parse_digit_or_space(s, i) == ExactLit(s, i, <<"?">>, Tok("DigitOrSpace"))
parse_decimal_point(s, i) == ExactLit(s, i, <<".">>, Tok("DecimalPoint"))
parse_thousands_separator(s, i) == ExactLit(s, i, <<",">>, Tok("ThousandsSeparator"))
parse_percentage(s, i) == ExactLit(s, i, <<"%">>, Tok("Percentage"))

parse_exponential(s, i) ==
    LET p == IF StartsWithCaselessAt(s, i, <<"E","+">>)
             THEN Ok(TokC("Exponential", <<"Plus">>), i + 2) ELSE Fail
    IN IF p.ok THEN p
       ELSE IF StartsWithCaselessAt(s, i, <<"E","-">>)
            THEN Ok(TokC("Exponential", <<"Minus">>), i + 2) ELSE Fail

\* The prefix scan runs to the first '-' of the whole remaining input, the
\* locale-code scan to the first ']' after it.
parse_excel_locale_currency_format(s, i) ==
    IF ~StartsWithAt(s, i, <<"[", "$">>) THEN Fail
    ELSE LET dash == FindChar(s, i + 2, "-")
             currency_prefix == IF dash = 0 THEN <<>> ELSE Slice(s, i + 2, dash - 1)
             code_start == IF dash = 0 THEN i + 2 ELSE dash + 1
             close == FindChar(s, code_start, "]")
             locale_code == Slice(s, code_start, close - 1)
             full_code == <<"[", "$", "-">> \o locale_code \o <<"]">>
         IN IF close = 0 THEN Fail
            ELSE IF currency_prefix # <<>>
            THEN Ok(TokC("CurrencySymbolLocalePrefixed",
                         currency_prefix \o <<":">> \o full_code), close + 1)
            ELSE Ok(Tok("CurrencySymbolLocaleDefault"), close + 1)

CurrencySign == "CURRENCY SIGN"

parse_locale_currency_symbol(s, i) ==
    LET sign == ExactLit(s, i, <<CurrencySign>>, Tok("CurrencySymbolLocaleDefault"))
    IN IF sign.ok THEN sign ELSE parse_excel_locale_currency_format(s, i)

parse_text_value_token(s, i) == ExactLit(s, i, <<"@">>, Tok("TextValue"))

\* preceded(lead, any).map(kind)
LeadAny(s, i, lead, kind) ==
    IF i + 1 <= Len(s) /\ s[i] = lead THEN Ok(TokC(kind, <<s[i + 1]>>), i + 2) ELSE Fail

parse_escaped_char_as_literal(s, i) == LeadAny(s, i, "\\", "LiteralChar")

ParseFillTakesNoChar(s, i) ==
    IF i <= Len(s) /\ s[i] = "*" THEN Ok(TokC("Fill", <<>>), i + 1) ELSE Fail

parse_fill(s, i) == LeadAny(s, i, "*", "Fill")
parse_skip_width(s, i) == LeadAny(s, i, "_", "SkipWidth")

LiteralPassthrough ==
    {"$", "+", "(", ":", "^", "'", "{", "<", "=", "-", "/", ")", "!", "&", "~",
     "}", ">", " "}

parse_literal_passthrough(s, i) ==
    IF i <= Len(s) /\ s[i] \in LiteralPassthrough
    THEN Ok(LiteralChar(s[i]), i + 1) ELSE Fail

\* The content of quoted text from position j on: a backslash takes the next
\* character, anything but '"' is taken as it is, '"' closes.
RECURSIVE QuotedContent(_, _, _)
QuotedContent(s, j, acc) ==
    IF j > Len(s) THEN Fail
    ELSE IF s[j] = "\\" /\ j + 1 <= Len(s) THEN QuotedContent(s, j + 2, Append(acc, s[j + 1]))
    ELSE IF s[j] # "\"" THEN QuotedContent(s, j + 1, Append(acc, s[j]))
    ELSE Ok(TokC("QuotedText", acc), j + 1)

parse_quoted_text(s, i) ==
    IF i <= Len(s) /\ s[i] = "\"" THEN QuotedContent(s, i + 1, <<>>) ELSE Fail

ColorNames ==
    << <<"R","e","d">>, <<"G","r","e","e","n">>, <<"B","l","u","e">>,
       <<"M","a","g","e","n","t","a">>, <<"C","y","a","n">>,
       <<"Y","e","l","l","o","w">>, <<"B","l","a","c","k">>,
       <<"W","h","i","t","e">> >>

parse_color(s, i) ==
    LET hits == {n \in 1..Len(ColorNames) :
                    StartsWithCaselessAt(s, i, <<"[">> \o ColorNames[n] \o <<"]">>)}
    IN IF hits = {} THEN Fail
       ELSE LET n == CHOOSE n \in hits : TRUE
            IN Ok(TokC("Color", ColorNames[n]), i + Len(ColorNames[n]) + 2)

\* alt((p1, p2, ...)): the first parser of the sequence that succeeds.
RECURSIVE FirstOk(_, _)
FirstOk(results, n) ==
    IF n > Len(results) THEN Fail
    ELSE IF results[n].ok THEN results[n]
    ELSE FirstOk(results, n + 1)

(***************************************************************************)
(* parser/sections.rs                                                      *)
(***************************************************************************)
\* The alternatives of parse_section_tokens in the order alt tries them:
\* date_tokens, time_tokens, number_tokens, text_special_tokens.
NextToken(s, i) ==
    Let(<< parse_year_four_digit(s, i), parse_year_two_digit(s, i),
               parse_month_letter(s, i), parse_month_full_name(s, i),
               parse_month_abbr(s, i), parse_day_full_name(s, i),
               parse_day_abbr(s, i), parse_day_padded(s, i), parse_day_single(s, i),
               parse_hour_padded(s, i), parse_second_padded(s, i),
               parse_month_or_minute_padded(s, i), parse_hour_single(s, i),
               parse_second_single(s, i), parse_month_or_minute_single(s, i),
               parse_am_pm(s, i), parse_a_p(s, i), parse_elapsed_hours(s, i),
               parse_elapsed_minutes(s, i), parse_elapsed_seconds(s, i),
               parse_digit_or_zero(s, i), parse_digit_if_needed(s, i),
               parse_digit_or_space(s, i), parse_decimal_point(s, i),
               parse_thousands_separator(s, i), parse_percentage(s, i),
               parse_locale_currency_symbol(s, i), parse_exponential(s, i),
               parse_text_value_token(s, i), parse_escaped_char_as_literal(s, i),
               parse_fill(s, i), parse_skip_width(s, i), parse_quoted_text(s, i),
               parse_color(s, i), parse_literal_passthrough(s, i) >>,
        LAMBDA results : FirstOk(results, 1))

lookahead_for_section_separator(s, i) == i <= Len(s) /\ s[i] = ";"

\* The while loop of parse_section_tokens: [ok, toks, next]; on an error next
\* is the position of the input the error message shows.
RECURSIVE TokenLoop(_, _, _)
TokenLoop(s, i, parts) ==
    IF i > Len(s) \/ lookahead_for_section_separator(s, i)
    THEN [ok |-> TRUE, toks |-> parts, next |-> i]
    ELSE Let(NextToken(s, i), LAMBDA r :
            IF r.ok THEN TokenLoop(s, r.next, Append(parts, r.tok))
            ELSE [ok |-> FALSE, toks |-> parts, next |-> i])

IsLit(t, ch) == t = LiteralChar(ch)
IsHour(t) == t.k \in {"Hour12Or24", "Hour12Or24Padded"}
IsSecond(t) == t.k \in {"SecondNum", "SecondNumPadded"}
IsDateNeighbour(t) ==
    \/ t.k \in {"DayNum", "DayNumPadded", "YearTwoDigit", "YearFourDigit"}
    \/ IsLit(t, "/") \/ IsLit(t, "-")

TreatAsMinuteNoAmPmRule(toks, i) ==
    \/ i > 1 /\ (IsHour(toks[i - 1]) \/ IsLit(toks[i - 1], ":"))
    \/ /\ i + 1 <= Len(toks)
       /\ \/ IsSecond(toks[i + 1])
          \/ /\ i + 2 <= Len(toks)
             /\ IsLit(toks[i + 1], ":")
             /\ IsSecond(toks[i + 2])

\* Rules 1 to 5 of resolve_month_minute_ambiguity_in_section for position i.
TreatAsMinute(toks, i) ==
    LET rule12 == i > 1 /\ (IsHour(toks[i - 1]) \/ IsLit(toks[i - 1], ":"))
        rule34 == /\ i + 1 <= Len(toks)
                  /\ \/ IsSecond(toks[i + 1])
                     \/ /\ i + 2 <= Len(toks)
                        /\ IsLit(toks[i + 1], ":")
                        /\ IsSecond(toks[i + 2])
        section_has_ampm == \E j \in 1..Len(toks) : toks[j].k \in {"AmPm", "AP"}
        is_near_date_token ==
            \/ i > 1 /\ IsDateNeighbour(toks[i - 1])
            \/ i + 1 <= Len(toks) /\ IsDateNeighbour(toks[i + 1])
        rule5 == section_has_ampm /\ ~is_near_date_token
    IN rule12 \/ rule34 \/ rule5

ResolveKeepsAmbiguousBeforeSecond(toks) ==
    [i \in 1..Len(toks) |->
        IF toks[i].k \in {"MonthOrMinute1", "MonthOrMinute2"}
              /\ ~(i + 1 <= Len(toks) /\ IsSecond(toks[i + 1]))
        THEN IF TreatAsMinute(toks, i)
             THEN (IF toks[i].k = "MonthOrMinute1"
                   THEN Tok("MinuteNum") ELSE Tok("MinuteNumPadded"))
             ELSE (IF toks[i].k = "MonthOrMinute1"
                   THEN Tok("MonthNum") ELSE Tok("MonthNumPadded"))
        ELSE toks[i]]

\* Every decision reads the vector as it was on entry (`tokens`), the
\* replacements go to the clone (`new_tokens`).
resolve_month_minute_ambiguity_in_section(toks) ==
    [i \in 1..Len(toks) |->
        IF toks[i].k \in {"MonthOrMinute1", "MonthOrMinute2"}
        THEN IF TreatAsMinute(toks, i)
             THEN (IF toks[i].k = "MonthOrMinute1"
                   THEN Tok("MinuteNum") ELSE Tok("MinuteNumPadded"))
             ELSE (IF toks[i].k = "MonthOrMinute1"
                   THEN Tok("MonthNum") ELSE Tok("MonthNumPadded"))
        ELSE toks[i]]

\* parse_section_tokens: the loop, the resolver, then every comma of a
\* section with a date/time token becomes a literal comma.
\* parse_section_tokens without the comma transformation of date sections.
ParseSectionTokensKeepingCommas(s, i) ==
    Let(TokenLoop(s, i, <<>>), LAMBDA r :
        IF ~r.ok THEN r
        ELSE [ok |-> TRUE, next |-> r.next,
              toks |-> resolve_month_minute_ambiguity_in_section(r.toks)])

parse_section_tokens(s, i) ==
    Let(TokenLoop(s, i, <<>>), LAMBDA r :
        IF ~r.ok THEN r
        ELSE Let(resolve_month_minute_ambiguity_in_section(r.toks), LAMBDA parts :
             Let(\E j \in 1..Len(parts) : is_datetime_placeholder(parts[j]),
                 LAMBDA is_datetime_section :
                    [ok |-> TRUE, next |-> r.next,
                     toks |-> [j \in 1..Len(parts) |->
                                 IF is_datetime_section /\ parts[j].k = "ThousandsSeparator"
                                 THEN LiteralChar(",") ELSE parts[j]]])))

(***************************************************************************)
(* parser/combinators.rs: parse_condition.                                 *)
(***************************************************************************)
RECURSIVE DigitsToInt(_, _)
DigitsToInt(digits, acc) ==
    IF digits = <<>> THEN acc
    ELSE DigitsToInt(Tail(digits), acc * 10 + DigitVal(Head(digits)))

DigitSet == {DigitChars[j] : j \in 1..10}

\* parse_comparison_operator_internal: [ok, op, next].
parse_comparison_operator_internal(s, i) ==
    IF StartsWithAt(s, i, <<"<", "=">>) THEN [ok |-> TRUE, op |-> "Le", next |-> i + 2]
    ELSE IF StartsWithAt(s, i, <<">", "=">>) THEN [ok |-> TRUE, op |-> "Ge", next |-> i + 2]
    ELSE IF StartsWithAt(s, i, <<"<", ">">>) THEN [ok |-> TRUE, op |-> "Ne", next |-> i + 2]
    ELSE IF StartsWithAt(s, i, <<"=">>) THEN [ok |-> TRUE, op |-> "Eq", next |-> i + 1]
    ELSE IF StartsWithAt(s, i, <<"<">>) THEN [ok |-> TRUE, op |-> "Lt", next |-> i + 1]
    ELSE IF StartsWithAt(s, i, <<">">>) THEN [ok |-> TRUE, op |-> "Gt", next |-> i + 1]
    ELSE [ok |-> FALSE, op |-> "none", next |-> i]

\* parse_condition_value_internal (winnow's float) on decimal literals: an
\* optional sign, digits with an optional fraction, or a fraction alone.  The
\* value is m / 10^e.  The exponent and the nan / inf spellings of the float
\* grammar are not modelled.
parse_condition_value_internal(s, i) ==
    LET signed == i <= Len(s) /\ s[i] \in {"+", "-"}
        j == IF signed THEN i + 1 ELSE i
        nint == RunLen(s, j, DigitSet)
        dot == j + nint <= Len(s) /\ s[j + nint] = "."
        nfrac == IF dot THEN RunLen(s, j + nint + 1, DigitSet) ELSE 0
        ok == nint >= 1 \/ (dot /\ nfrac >= 1)
        mag == DigitsToInt(Slice(s, j, j + nint - 1)
                             \o Slice(s, j + nint + 1, j + nint + nfrac), 0)
    IN [ok |-> ok,
        val |-> [m |-> IF signed /\ s[i] = "-" THEN -mag ELSE mag, e |-> nfrac],
        next |-> j + nint + (IF dot THEN 1 + nfrac ELSE 0)]

\* delimited("[", (operator, value), "]"): [ok, cond, next].
parse_condition(s, i) ==
    LET op == parse_comparison_operator_internal(s, i + 1)
        val == parse_condition_value_internal(s, op.next)
    IN IF i <= Len(s) /\ s[i] = "[" /\ op.ok /\ val.ok
          /\ val.next <= Len(s) /\ s[val.next] = "]"
       THEN [ok |-> TRUE, cond |-> [operator |-> op.op, value |-> val.val],
             next |-> val.next + 1]
       ELSE [ok |-> FALSE, cond |-> [operator |-> "none", value |-> [m |-> 0, e |-> 0]],
             next |-> i]

(***************************************************************************)
(* parser/sections.rs: parse_one_section.                                  *)
(***************************************************************************)
MaxU32Digits == 9

\* den_str.parse::<u32>(): Some(value) or None.  Strings of more than nine
\* digits are reported as failures; the largest u32 has ten.
ParseU32(digits) ==
    IF Len(digits) <= MaxU32Digits THEN Some(DigitsToInt(digits, 0)) ELSE None

IsLiteralDigit(t) == t.k = "LiteralChar" /\ IsAsciiDigit(t.c[1])

RECURSIVE LiteralDigitRun(_, _)
LiteralDigitRun(toks, j) ==
    IF j <= Len(toks) /\ IsLiteralDigit(toks[j]) THEN 1 + LiteralDigitRun(toks, j + 1) ELSE 0

\* The turn of the loop with every placeholder counted as an integer one.
FractionStepCountingIntegerOnly(toks, j, st1, ndig) ==
    LET token == toks[j]
        den == ParseU32([n \in 1..ndig |-> toks[j + n].c[1]])
    IN IF IsLit(token, "/")
       THEN IF ~st1.has_datetime
            THEN IF ndig > 0 /\ den.some
                 THEN [j |-> j + 1 + ndig,
                       st |-> [st1 EXCEPT !.fixed_denominator = den, !.has_fraction = TRUE]]
                 ELSE [j |-> j + 1 + ndig,
                       st |-> [st1 EXCEPT !.final = Append(@, token), !.has_fraction = TRUE]]
            ELSE [j |-> j + 1, st |-> [st1 EXCEPT !.final = Append(@, token)]]
       ELSE IF token.k = "DecimalPoint"
       THEN [j |-> j + 1,
             st |-> [st1 EXCEPT !.final = Append(@, token), !.in_integer_part = FALSE]]
       ELSE IF token.k \in DigitPlaceholders
       THEN [j |-> j + 1,
             st |-> [st1 EXCEPT !.final = Append(@, token),
                                !.num_integer_part_tokens = @ + 1]]
       ELSE [j |-> j + 1, st |-> [st1 EXCEPT !.final = Append(@, token)]]

\* The `while let Some(token) = tokens_iter.next()` loop (fixed denominator,
\* fraction detection, flags, placeholder counts).
\* One turn of the loop on `token` = toks[j] with the flags already updated
\* (st1) and ndig literal digits after it: the next position and state.
FractionStep(toks, j, st1, ndig) ==
    LET token == toks[j]
        den == ParseU32([n \in 1..ndig |-> toks[j + n].c[1]])
    IN IF IsLit(token, "/")
       THEN IF ~st1.has_datetime
            THEN IF ndig > 0 /\ den.some
                 THEN [j |-> j + 1 + ndig,
                       st |-> [st1 EXCEPT !.fixed_denominator = den, !.has_fraction = TRUE]]
                 ELSE [j |-> j + 1 + ndig,
                       st |-> [st1 EXCEPT !.final = Append(@, token), !.has_fraction = TRUE]]
            ELSE [j |-> j + 1, st |-> [st1 EXCEPT !.final = Append(@, token)]]
       ELSE IF token.k = "DecimalPoint"
       THEN [j |-> j + 1,
             st |-> [st1 EXCEPT !.final = Append(@, token), !.in_integer_part = FALSE]]
       ELSE IF token.k \in DigitPlaceholders
       THEN [j |-> j + 1,
             st |-> [st1 EXCEPT !.final = Append(@, token),
                                !.num_integer_part_tokens =
                                    IF st1.in_integer_part THEN @ + 1 ELSE @,
                                !.num_fractional_part_tokens =
                                    IF st1.in_integer_part THEN @ ELSE @ + 1]]
       ELSE [j |-> j + 1, st |-> [st1 EXCEPT !.final = Append(@, token)]]

\* The `while let Some(token) = tokens_iter.next()` loop (fixed denominator,
\* fraction detection, flags, placeholder counts).
RECURSIVE FractionLoop(_, _, _)
FractionLoop(toks, j, st) ==
    IF j > Len(toks) THEN st
    ELSE Let(FractionStep(toks, j,
                 [st EXCEPT !.has_datetime = @ \/ is_datetime_placeholder(toks[j]),
                            !.has_text_format = @ \/ toks[j].k = "TextValue"],
                 IF IsLit(toks[j], "/") THEN LiteralDigitRun(toks, j + 1) ELSE 0),
             LAMBDA n : FractionLoop(toks, n.j, n.st))

FractionLoopInit ==
    [final |-> <<>>, fixed_denominator |-> None, has_fraction |-> FALSE,
     has_datetime |-> FALSE, has_text_format |-> FALSE,
     num_integer_part_tokens |-> 0, num_fractional_part_tokens |-> 0,
     in_integer_part |-> TRUE]

NumericForScaling == DigitPlaceholders \cup {"DecimalPoint", "Exponential"}

\* rposition of the last numeric token, 0 for None.
LastNumericTokenIdx(toks) ==
    LET hits == {j \in 1..Len(toks) : toks[j].k \in NumericForScaling}
    IN IF hits = {} THEN 0 ELSE CHOOSE j \in hits : \A h \in hits : h <= j

RECURSIVE CommaRun(_, _)
CommaRun(toks, j) ==
    IF j <= Len(toks) /\ toks[j].k = "ThousandsSeparator" THEN 1 + CommaRun(toks, j + 1) ELSE 0

\* The scaling-comma scan: the commas right after the last numeric token, or
\* the leading commas of a section without numeric tokens, are counted and
\* removed.  [count, toks].
ScalingCommasFirstNumeric(toks) ==
    LET hits == {j \in 1..Len(toks) : toks[j].k \in NumericForScaling}
        first == IF hits = {} THEN 0 ELSE CHOOSE j \in hits : \A h \in hits : j <= h
        n == CommaRun(toks, first + 1)
    IN [count |-> n,
        toks |-> Slice(toks, 1, first) \o Slice(toks, first + n + 1, Len(toks))]

ScalingCommas(toks) ==
    Let(LastNumericTokenIdx(toks), LAMBDA last_idx :
        Let(CommaRun(toks, last_idx + 1), LAMBDA n :
            [count |-> n,
             toks |-> Slice(toks, 1, last_idx) \o Slice(toks, last_idx + n + 1, Len(toks))]))

EmptySection ==
    [condition |-> None, color |-> None, tokens |-> <<>>, is_text_section |-> FALSE,
     num_scaling_commas |-> 0, has_datetime |-> FALSE, has_text_format |-> FALSE,
     has_fraction |-> FALSE, fixed_denominator |-> None,
     num_integer_part_tokens |-> 0, num_fractional_part_tokens |-> 0]

\* The section built from the condition, the tokens that follow it (all) and
\* the position after them.
BuildSection(maybe_condition, all, is_text_s) ==
    LET has_color == all.toks # <<>> /\ all.toks[1].k = "Color"
        color_opt == IF has_color THEN Some(all.toks[1].c) ELSE None
        tokens_after_color == IF has_color THEN Tail(all.toks) ELSE all.toks
    IN Let(FractionLoop(tokens_after_color, 1, FractionLoopInit), LAMBDA st :
       Let(ScalingCommas(st.final), LAMBDA sc :
           [condition |-> maybe_condition,
            color |-> color_opt,
            tokens |-> sc.toks,
            is_text_section |-> is_text_s,
            num_scaling_commas |-> sc.count,
            has_datetime |-> st.has_datetime,
            has_text_format |-> st.has_text_format,
            has_fraction |-> st.has_fraction,
            fixed_denominator |-> st.fixed_denominator,
            num_integer_part_tokens |-> st.num_integer_part_tokens,
            num_fractional_part_tokens |-> st.num_fractional_part_tokens]))

\* parse_one_section(section_index) at position i: [ok, sec, next].
parse_one_section(s, i, section_index) ==
    Let(parse_condition(s, i), LAMBDA c :
    Let(section_index # 3 /\ c.ok, LAMBDA has_condition :
    Let(parse_section_tokens(s, IF has_condition THEN c.next ELSE i), LAMBDA all :
        IF ~all.ok THEN [ok |-> FALSE, sec |-> EmptySection, next |-> all.next]
        ELSE [ok |-> TRUE, next |-> all.next,
              sec |-> BuildSection(IF has_condition THEN Some(c.cond) ELSE None,
                                   all, section_index = 3)])))

(***************************************************************************)
(* parser/format.rs: parse_number_format.  The Result is                   *)
(* [ok, err, nf]: nf is the NumberFormat of Ok, err the message of Err.    *)
(***************************************************************************)
General == <<"g", "e", "n", "e", "r", "a", "l">>

general_section ==
    [EmptySection EXCEPT !.tokens = <<Tok("GeneralNumeric")>>]

general_text_section ==
    [EmptySection EXCEPT !.tokens = <<Tok("TextValue")>>,
                         !.is_text_section = TRUE,
                         !.has_text_format = TRUE]

NoFormat ==
    [positive_section |-> EmptySection, negative_section |-> None,
     zero_section |-> None, text_section |-> None]

Err(msg) == [ok |-> FALSE, err |-> msg, nf |-> NoFormat]

\* `if input.starts_with(';') { literal(";"); parse_one_section(idx) }` after
\* the section result prev: [present, r].
NextSection(s, prev, idx) ==
    IF prev.present /\ prev.r.ok /\ lookahead_for_section_separator(s, prev.r.next)
    THEN Let(prev.r.next + 1, LAMBDA i :
             [present |-> TRUE, r |-> parse_one_section(s, i, idx)])
    ELSE [present |-> FALSE, r |-> [ok |-> TRUE, sec |-> EmptySection, next |-> prev.r.next]]

Resolved(sec) ==
    [sec EXCEPT !.tokens = resolve_month_minute_ambiguity_in_section(@)]

OptSection(x) == IF x.present THEN Some(Resolved(x.r.sec)) ELSE None

ConditionCountIgnoresZero(positive, negative, zero) ==
    (IF positive.condition.some THEN 1 ELSE 0)
    + (IF negative.some /\ negative.v.condition.some THEN 1 ELSE 0)

\* condition_count of the "Validate condition constraints" block.
ConditionCount(positive, negative, zero) ==
    (IF positive.condition.some THEN 1 ELSE 0)
    + (IF negative.some /\ negative.v.condition.some THEN 1 ELSE 0)
    + (IF zero.some /\ zero.v.condition.some THEN 1 ELSE 0)

MaxConditionalSections == 2

\* The checks that follow the four sections p, n, z, t ([present, r] each).
Validate(s, p, n, z, t) ==
    Let(<<Resolved(p.r.sec), OptSection(n), OptSection(z), OptSection(t)>>, LAMBDA q :
        LET positive == q[1]
            negative == q[2]
            zero == q[3]
            text == q[4]
        IN IF ~(p.r.ok /\ n.r.ok /\ z.r.ok /\ t.r.ok) THEN Err("Parse error")
           ELSE IF t.r.next <= Len(s)
           THEN Err("Too many sections or trailing characters")
           ELSE IF text.some /\ text.v.condition.some
           THEN Err("Text section (4th) must not have a condition.")
           ELSE IF ConditionCount(positive, negative, zero) > MaxConditionalSections
           THEN Err("Format string cannot have more than two conditional sections.")
           ELSE IF text.some /\ \E j \in 1..Len(text.v.tokens) :
                                    is_numeric_or_date(text.v.tokens[j])
           THEN Err("Text section (4th) contains a numeric or date symbol")
           ELSE [ok |-> TRUE, err |-> "",
                 nf |-> [positive_section |-> positive, negative_section |-> negative,
                         zero_section |-> zero, text_section |-> text]])

parse_number_format(s) ==
    IF ContainsCaseless(s, General)
    THEN [ok |-> TRUE, err |-> "",
          nf |-> [positive_section |-> general_section, negative_section |-> None,
                  zero_section |-> None, text_section |-> Some(general_text_section)]]
    ELSE Let([present |-> TRUE, r |-> parse_one_section(s, 1, 0)], LAMBDA p :
         Let(NextSection(s, p, 1), LAMBDA n :
         Let(NextSection(s, n, 2), LAMBDA z :
         Let(NextSection(s, z, 3), LAMBDA t : Validate(s, p, n, z, t)))))

(***************************************************************************)
(* formatter/standard_numeric.rs: format_standard_numeric_core.  An f64 is *)
(* the decimal expansion Dec(neg, i, f); multiplying by ten, trunc and     *)
(* fract act on the digits, so the binary representation error of an f64   *)
(* is left out.  adjusted_value is not negative here: the callers below    *)
(* pass the magnitude.                                                     *)
(***************************************************************************)
DigitAt(f, k) == IF k <= Len(f) THEN f[k] ELSE 0
AllZero(f) == \A k \in 1..Len(f) : f[k] = 0
IsZeroDec(v) == v.i = 0 /\ AllZero(v.f)
AbsDec(v) == [v EXCEPT !.neg = FALSE]

\* `x < 0.0`.
IsNegativeDec(v) == v.neg /\ ~IsZeroDec(v)

\* i64::to_string of a non-negative integer.
RECURSIVE to_string(_)
to_string(n) ==
    IF n < 10 THEN <<DigitChars[n + 1]>>
    ELSE to_string(n \div 10) \o <<DigitChars[(n % 10) + 1]>>

\* const EPSILON: f64 = 1e-9, as the number of decimal places of 1e-9.
EpsilonDigits == 9

\* `fract().abs() < EPSILON`.
FractBelowEpsilon(f) == \A k \in 1..EpsilonDigits : DigitAt(f, k) = 0

\* The digits of 0.5 - EPSILON.
HalfMinusEpsilon == [k \in 1..EpsilonDigits |-> IF k = 1 THEN 4 ELSE 9]

\* a >= b for two fractions given by their digits, from digit k on.
RECURSIVE GeDigits(_, _, _)
GeDigits(a, b, k) ==
    IF k > Len(a) /\ k > Len(b) THEN TRUE
    ELSE IF DigitAt(a, k) # DigitAt(b, k) THEN DigitAt(a, k) > DigitAt(b, k)
    ELSE GeDigits(a, b, k + 1)

IsPlaceholder(t) == t.k \in DigitPlaceholders

\* The first DecimalPoint token of the section, 0 when there is none.
FirstDecimalPoint(toks) ==
    LET dp == {j \in 1..Len(toks) : toks[j].k = "DecimalPoint"}
    IN IF dp = {} THEN 0 ELSE CHOOSE j \in dp : \A i \in dp : j <= i

local_decimal_places(toks) ==
    LET first == FirstDecimalPoint(toks)
    IN IF first = 0 THEN 0
       ELSE Cardinality({j \in (first + 1)..Len(toks) : IsPlaceholder(toks[j])})

total_integer_placeholders(toks) ==
    LET first == FirstDecimalPoint(toks)
        last == IF first = 0 THEN Len(toks) ELSE first - 1
    IN Cardinality({j \in 1..last : IsPlaceholder(toks[j])})

\* initial_decimal_part: the fraction, or zero when it is below EPSILON.
InitialDecimalPart(v) == IF FractBelowEpsilon(v.f) \/ AllZero(v.f) THEN <<>> ELSE v.f

\* The carry loop, from digit i down: the digits and the carry into the
\* integer part.
RECURSIVE CarryLoop(_, _)
CarryLoop(digits, i) ==
    IF i = 0 THEN [digits |-> digits, carry |-> 1]
    ELSE IF digits[i] = 9 THEN CarryLoop([digits EXCEPT ![i] = 0], i - 1)
    ELSE [digits |-> [digits EXCEPT ![i] = @ + 1], carry |-> 0]

RoundsExactHalfUp(remaining) == DigitAt(remaining, 1) >= 5

RoundsUp(remaining) == GeDigits(remaining, HalfMinusEpsilon, 1)

\* integer_to_format and decimal_digits_vec for `places` decimal places, from
\* the integer part and initial_decimal_part d: [int, digits].
RoundToPlaces(v, d, places) ==
    IF places = 0
    THEN [int |-> v.i + (IF DigitAt(v.f, 1) >= 5 THEN 1 ELSE 0), digits |-> <<>>]
    ELSE LET extracted == [k \in 1..places |-> DigitAt(d, k)]
             remaining == Slice(d, places + 1, Len(d))
         IN IF RoundsUp(remaining)
            THEN Let(CarryLoop(extracted, places), LAMBDA c :
                     [int |-> v.i + c.carry, digits |-> c.digits])
            ELSE [int |-> v.i, digits |-> extracted]

\* formatted_integer_part_vec: the digits, grouped by three from the right
\* when the section has a ThousandsSeparator token and the integer is not 0.
thousands_separator == ","
decimal_point == "."
currency_symbol == <<"$">>

\* The digits from the k-th on, a separator after each digit that has a
\* positive multiple of three digits to its right.
RECURSIVE Grouped(_, _)
Grouped(int_digits, k) ==
    LET n == Len(int_digits)
    IN IF k > n THEN <<>>
       ELSE IF n - k > 0 /\ (n - k) % 3 = 0
       THEN <<int_digits[k], thousands_separator>> \o Grouped(int_digits, k + 1)
       ELSE <<int_digits[k]>> \o Grouped(int_digits, k + 1)

FormattedIntegerPart(toks, int) ==
    IF (\E j \in 1..Len(toks) : toks[j].k = "ThousandsSeparator") /\ int # 0
    THEN Grouped(to_string(int), 1)
    ELSE to_string(int)

uses_parentheses(toks) ==
    \E j \in 1..Len(toks) : toks[j] = LiteralChar("(") \/ toks[j] = LiteralChar(")")

\* What the function computes before its token loop.
RenderContext(original_value_for_sign, adjusted_value, toks, fallback) ==
    Let(RoundToPlaces(adjusted_value, InitialDecimalPart(adjusted_value),
                      local_decimal_places(toks)), LAMBDA rounded :
    Let(total_integer_placeholders(toks), LAMBDA total :
    Let(IF rounded.int = 0 /\ total > 0 THEN 1 ELSE Len(to_string(rounded.int)), LAMBDA raw :
        [toks |-> toks,
         fallback |-> fallback,
         is_negative |-> IsNegativeDec(original_value_for_sign),
         uses_parentheses |-> uses_parentheses(toks),
         integer_to_format |-> rounded.int,
         decimal_digits_vec |-> rounded.digits,
         formatted |-> FormattedIntegerPart(toks, rounded.int),
         total |-> total,
         num_actual_raw_int_digits |-> raw,
         padding_len |-> IF total > raw THEN total - raw ELSE 0,
         first_decimal_point |-> FirstDecimalPoint(toks),
         value_is_zero |-> IsZeroDec(adjusted_value)])))

\* The mutable locals of the token loop.
LoopStart(c) ==
    [result |-> <<>>, iter |-> c.formatted, sign_printed |-> FALSE,
     in_decimal_part |-> FALSE, frac_pos |-> 0, idx |-> 0, printed |-> FALSE]

\* `while int_digits_iter.peek().is_some() && ... { result.push(...) }`
\* before a literal or a quoted text.
DrainBeforeLiteral(c, r) ==
    IF r.iter # <<>> /\ (r.idx >= c.total \/ c.total = 0) /\ ~r.in_decimal_part
    THEN [r EXCEPT !.result = @ \o r.iter, !.iter = <<>>, !.printed = TRUE]
    ELSE r

\* All the remaining integer digits are pushed.
DrainAll(r) ==
    IF r.iter # <<>>
    THEN [r EXCEPT !.result = @ \o r.iter, !.iter = <<>>, !.printed = TRUE]
    ELSE r

StartsWith(text, ch) == text # <<>> /\ text[1] = ch

OnLiteralChar(c, r0, ch) ==
    Let(DrainBeforeLiteral(c, r0), LAMBDA r :
        LET literal_is_acting_as_sign ==
                /\ ~c.fallback /\ c.is_negative
                /\ \/ ch = "(" /\ c.uses_parentheses
                   \/ ch = "-" /\ ~c.uses_parentheses
        IN [r EXCEPT !.result = Append(@, ch),
                     !.sign_printed = @ \/ literal_is_acting_as_sign])

OnQuotedText(c, r0, text) ==
    Let(DrainBeforeLiteral(c, r0), LAMBDA r :
        LET acts_as_sign ==
                /\ ~c.fallback /\ c.is_negative
                /\ \/ ~c.uses_parentheses /\ StartsWith(text, "-")
                   \/ c.uses_parentheses /\ StartsWith(text, "(")
        IN [r EXCEPT !.result = @ \o text, !.sign_printed = @ \/ acts_as_sign])

OnDecimalPoint(c, r0) ==
    LET last == IF c.first_decimal_point = 0 THEN Len(c.toks) ELSE c.first_decimal_point - 1
        has_mandatory_int_zero_placeholder ==
            \E j \in 1..last : c.toks[j].k = "DigitOrZero"
        zero_first == /\ ~r0.printed /\ c.integer_to_format = 0
                      /\ (has_mandatory_int_zero_placeholder \/ c.total = 0)
    IN Let(DrainAll(IF zero_first
                    THEN [r0 EXCEPT !.result = Append(@, "0"), !.printed = TRUE]
                    ELSE r0), LAMBDA r :
           [r EXCEPT !.result = Append(@, decimal_point), !.in_decimal_part = TRUE])

PadChar(kind) ==
    CASE kind = "DigitOrZero" -> <<"0">>
      [] kind = "DigitOrSpace" -> <<" ">>
      [] OTHER -> <<>>

OnIntegerPlaceholder(c, r, kind) ==
    LET from_iter == ~(r.idx < c.padding_len) /\ r.iter # <<>>
        digit_char == Head(r.iter)
        char_to_print ==
            IF r.idx < c.padding_len THEN PadChar(kind)
            ELSE IF r.iter # <<>>
            THEN IF kind \in {"DigitOrZero", "DigitOrSpace"} THEN <<digit_char>>
                 ELSE IF \/ r.printed
                         \/ digit_char # "0"
                         \/ c.num_actual_raw_int_digits = 1 /\ c.integer_to_format = 0
                         \/ c.integer_to_format = 0 /\ Len(r.iter) = 1
                      THEN <<digit_char>>
                      ELSE <<>>
            ELSE PadChar(kind)
        counts_as_digit ==
            /\ char_to_print # <<>>
            /\ IsAsciiDigit(char_to_print[1])
            /\ (char_to_print[1] # "0" \/ kind = "DigitOrZero")
    IN [r EXCEPT !.result = @ \o char_to_print,
                 !.printed = @ \/ counts_as_digit,
                 !.iter = IF from_iter THEN Tail(@) ELSE @,
                 !.idx = @ + 1]

OnFractionPlaceholder(c, r, kind) ==
    LET digits == c.decimal_digits_vec
        digit_val == digits[r.frac_pos + 1]
        all_subsequent_are_optional_zeros ==
            \A k \in (r.frac_pos + 1)..Len(digits) : digits[k] = 0
        all_subsequent_placeholders_are_sharp ==
            \A j \in (c.first_decimal_point + 1 + r.frac_pos)..Len(c.toks) :
                c.toks[j].k # "DigitOrZero"
        out == IF r.frac_pos < Len(digits)
               THEN IF kind = "DigitIfNeeded" /\ digit_val = 0
                       /\ all_subsequent_are_optional_zeros
                       /\ all_subsequent_placeholders_are_sharp
                    THEN <<>>
                    ELSE <<DigitChars[digit_val + 1]>>
               ELSE PadChar(kind)
    IN [r EXCEPT !.result = @ \o out, !.frac_pos = @ + 1]

OnPercentage(c, r0) ==
    Let(DrainAll(r0), LAMBDA r :
        IF ~r.printed /\ c.integer_to_format = 0
        THEN [r EXCEPT !.result = @ \o <<"0", "%">>, !.printed = TRUE]
        ELSE [r EXCEPT !.result = Append(@, "%")])

\* `value.split_once(':')`: the prefix, or the whole value without a ':'.
CurrencyPrefix(chars) ==
    LET colon == FindChar(chars, 1, ":")
    IN IF colon = 0 THEN chars ELSE Slice(chars, 1, colon - 1)

\* One iteration of `for token in &section.tokens`.
OnToken(c, r, t) ==
    CASE t.k = "LiteralChar" -> OnLiteralChar(c, r, t.c[1])
      [] t.k = "QuotedText" -> OnQuotedText(c, r, t.c)
      [] t.k = "DecimalPoint" -> OnDecimalPoint(c, r)
      [] t.k \in DigitPlaceholders ->
            IF r.in_decimal_part THEN OnFractionPlaceholder(c, r, t.k)
            ELSE OnIntegerPlaceholder(c, r, t.k)
      [] t.k = "Percentage" -> OnPercentage(c, r)
      [] t.k = "CurrencySymbolLocaleDefault" -> [r EXCEPT !.result = @ \o currency_symbol]
      [] t.k = "CurrencySymbolLocalePrefixed" ->
            [r EXCEPT !.result = @ \o CurrencyPrefix(t.c)]
      [] t.k = "SkipWidth" -> [r EXCEPT !.result = Append(@, " ")]
      [] OTHER -> r

RECURSIVE RenderLoop(_, _, _)
RenderLoop(c, j, r) ==
    IF j > Len(c.toks) THEN r
    ELSE Let(OnToken(c, r, c.toks[j]), LAMBDA n : RenderLoop(c, j + 1, n))

\* The block after the loop that puts a "0" into an otherwise blank result.
ZeroHandling(c, r) ==
    LET result == r.result
        Has(kind) == \E j \in 1..Len(c.toks) : c.toks[j].k = kind
        has_any_placeholder == \E j \in 1..Len(c.toks) : IsPlaceholder(c.toks[j])
        blank == \A k \in 1..Len(result) : result[k] = " "
    IN IF /\ ~r.printed /\ c.value_is_zero
          /\ \A k \in 1..Len(result) : result[k] \in {" ", "(", ")"}
          /\ has_any_placeholder
          /\ result = <<>>
          /\ \/ ~Has("DigitOrSpace")
             \/ blank /\ c.integer_to_format = 0 /\ c.first_decimal_point = 0
                      /\ Has("DigitOrZero")
       THEN <<"0">>
       ELSE result

\* The final sign pass without the sign_printed flag.
SignPassIgnoringSignPrinted(c, sign_printed, result) ==
    IF ~c.is_negative THEN result
    ELSE IF c.uses_parentheses
    THEN LET opened == IF ~sign_printed THEN <<"(">> \o result ELSE result
         IN IF StartsWith(opened, "(") /\ opened[Len(opened)] # ")"
            THEN Append(opened, ")")
            ELSE opened
    ELSE <<"-">> \o result

\* The final sign pass.
SignPass(c, sign_printed, result) ==
    IF ~c.is_negative THEN result
    ELSE IF c.uses_parentheses
    THEN LET opened == IF ~sign_printed THEN <<"(">> \o result ELSE result
         IN IF StartsWith(opened, "(") /\ opened[Len(opened)] # ")"
            THEN Append(opened, ")")
            ELSE opened
    ELSE IF c.fallback \/ ~sign_printed THEN <<"-">> \o result
    ELSE result

format_standard_numeric_core(original_value_for_sign, adjusted_value, toks, fallback) ==
    Let(RenderContext(original_value_for_sign, adjusted_value, toks, fallback), LAMBDA c :
    Let(DrainAll(RenderLoop(c, 1, LoopStart(c))), LAMBDA r :
    Let(ZeroHandling(c, r), LAMBDA result :
        SignPass(c, r.sign_printed, result))))

(***************************************************************************)
(* formatter/core.rs, format_value: the value the placeholders are applied *)
(* to, and the test for a section without any numeric token.               *)
(***************************************************************************)
is_text_output_mode(toks) ==
    ~\E j \in 1..Len(toks) :
        toks[j].k \in DigitPlaceholders \cup
            {"DecimalPoint", "Percentage", "Exponential", "TextValue"}

\* `abs_value * 100.0`.
Times100(v) ==
    [v EXCEPT !.i = v.i * 100 + DigitAt(v.f, 1) * 10 + DigitAt(v.f, 2),
              !.f = Slice(v.f, 3, Len(v.f))]

\* `adjusted_value /= 1000.0`.
DivideBy1000(v) ==
    LET low == v.i % 1000
    IN [v EXCEPT !.i = v.i \div 1000,
                 !.f = <<low \div 100, (low \div 10) % 10, low % 10>> \o v.f]

\* `for _ in 0..section.num_scaling_commas { adjusted_value /= 1000.0; }`
RECURSIVE ScaleDown(_, _)
ScaleDown(v, n) == IF n = 0 THEN v ELSE ScaleDown(DivideBy1000(v), n - 1)

AdjustedValue(v, section) ==
    LET has_percentage ==
            \E j \in 1..Len(section.tokens) : section.tokens[j].k = "Percentage"
        abs_value == AbsDec(v)
    IN ScaleDown(IF has_percentage THEN Times100(abs_value) ELSE abs_value,
                 section.num_scaling_commas)

\* The sections format_value passes on to the placeholder walk: those with a
\* numeric token and without date/time, text, fraction, exponent or General
\* tokens.
StandardNumericSection(section) ==
    /\ \A j \in 1..Len(section.tokens) : ~is_datetime_placeholder(section.tokens[j])
    /\ ~section.has_datetime
    /\ ~section.has_text_format
    /\ ~section.has_fraction
    /\ ~is_text_output_mode(section.tokens)
    /\ \A j \in 1..Len(section.tokens) :
           section.tokens[j].k \notin {"Exponential", "GeneralNumeric"}

\* format_standard_numeric_core on a value and a section: adjusted_value is the
\* "value after abs(), percentage, scaling".
StandardNumeric(v, section, fallback) ==
    format_standard_numeric_core(v, AdjustedValue(v, section), section.tokens, fallback)

(***************************************************************************)
(* formatter/fraction: decimal_to_fraction, format_integer_like_segment    *)
(* and format_number_as_fraction.  The fractional part of a value is the   *)
(* fractional part of the f64 nearest to the value, and 1.0 / remainder is *)
(* the correctly rounded f64 quotient.                                     *)
(***************************************************************************)
RECURSIVE Pow10(_)
Pow10(n) == IF n = 0 THEN 1 ELSE 10 * Pow10(n - 1)

RECURSIVE DigitsValue(_, _)
DigitsValue(digits, acc) ==
    IF digits = <<>> THEN acc ELSE DigitsValue(Tail(digits), acc * 10 + Head(digits))

\* abs_value.fract() as [p, q] with p < q.
(***************************************************************************)
(* f64 arithmetic of decimal_to_fraction.  A positive f64 is m * 2^e with  *)
(* the 53-bit significand m kept as two limbs <<hi, lo>> of 26 and 27      *)
(* bits, m = hi * 2^27 + lo, 2^52 <= m < 2^53; zero has m = <<0, 0>>.      *)
(* Division is long division, one quotient bit per step, rounded to the    *)
(* nearest significand with ties to even, as IEEE 754 does.  2^25, 2^26    *)
(* and 2^27 are written 33554432, 67108864 and 134217728.                  *)
(***************************************************************************)
Limbs(n) == <<n \div 134217728, n % 134217728>>

Dbl(m) == <<2 * m[1] + (2 * m[2]) \div 134217728, (2 * m[2]) % 134217728>>

Ge(a, b) == a[1] > b[1] \/ (a[1] = b[1] /\ a[2] >= b[2])

Sub(a, b) ==
    IF a[2] >= b[2] THEN <<a[1] - b[1], a[2] - b[2]>>
    ELSE <<a[1] - b[1] - 1, a[2] + 134217728 - b[2]>>

Inc(m) == IF m[2] + 1 = 134217728 THEN <<m[1] + 1, 0>> ELSE <<m[1], m[2] + 1>>

Half(m) == <<m[1] \div 2, (m[1] % 2) * (134217728 \div 2) + m[2] \div 2>>

RECURSIVE Pow2(_)
Pow2(n) == IF n = 0 THEN 1 ELSE 2 * Pow2(n - 1)

F64Zero == [m |-> <<0, 0>>, e |-> 0]

IsF64Zero(x) == x.m = <<0, 0>>

\* The quotient bits of r/d after the integer part q, until q holds 54 bits;
\* s counts the bits produced.
RECURSIVE DivLoop(_, _, _, _)
DivLoop(q, r, d, s) ==
    IF q[1] >= 67108864 THEN [q |-> q, r |-> r, s |-> s]
    ELSE IF Ge(Dbl(r), d)
    THEN DivLoop(Inc(Dbl(q)), Sub(Dbl(r), d), d, s + 1)
    ELSE DivLoop(Dbl(q), Dbl(r), d, s + 1)

\* The 54-bit quotient q * 2^e with a remainder (sticky) rounded to 53 bits.
RoundF64(q, sticky, e) ==
    LET half == Half(q)
        up == q[2] % 2 = 1 /\ (sticky \/ half[2] % 2 = 1)
        m == IF up THEN Inc(half) ELSE half
    IN IF m[1] = 67108864 THEN [m |-> <<33554432, 0>>, e |-> e + 2]
       ELSE [m |-> m, e |-> e + 1]

\* The f64 nearest to n / d, for naturals n and d below 2^27 * d and 2^27.
ToF64(n, d) ==
    IF n = 0 THEN F64Zero
    ELSE LET x == DivLoop(Limbs(n \div d), <<0, n % d>>, <<0, d>>, 0)
         IN RoundF64(x.q, x.r # <<0, 0>>, 0 - x.s)

\* 1.0 / x for a positive f64 x.
Reciprocal(x) ==
    LET one == <<33554432, 0>>
        y == IF x.m = one THEN DivLoop(<<0, 1>>, <<0, 0>>, x.m, 0)
             ELSE DivLoop(<<0, 0>>, one, x.m, 0)
    IN RoundF64(y.q, y.r # <<0, 0>>, 0 - y.s - 52 - x.e)

\* m * 2^e brought back to a 53-bit significand.
RECURSIVE Normalized(_, _)
Normalized(m, e) ==
    IF m = <<0, 0>> THEN F64Zero
    ELSE IF m[1] >= 33554432 THEN [m |-> m, e |-> e]
    ELSE Normalized(Dbl(m), e - 1)

\* a.floor() as i64 and a - a.floor(), for a >= 0.  A floor of 2^30 or more
\* is given as 2^30: it exceeds every denominator bound.
FloorAndRemainder(a) ==
    LET s == 0 - a.e
    IN IF IsF64Zero(a) \/ s >= 53 THEN [floor |-> 0, remainder |-> a]
       ELSE IF s <= 0 THEN [floor |-> 1073741824, remainder |-> F64Zero]
       ELSE IF s >= 27
       THEN [floor |-> a.m[1] \div Pow2(s - 27),
             remainder |-> Normalized(<<a.m[1] % Pow2(s - 27), a.m[2]>>, a.e)]
       ELSE [floor |-> IF s <= 22 THEN 1073741824
                       ELSE a.m[1] * Pow2(27 - s) + a.m[2] \div Pow2(s),
             remainder |-> Normalized(<<0, a.m[2] % Pow2(s)>>, a.e)]

\* 1e-9 as an f64: 0x1.12e0be826d695p-30.
Epsilon == [m |-> <<36028797, 2545301>>, e |-> 0 - 82]

\* x < y for f64 values x >= 0 and y > 0.
F64Less(x, y) ==
    \/ IsF64Zero(x)
    \/ x.e < y.e
    \/ x.e = y.e /\ ~Ge(x.m, y.m)

\* The fractional part of a non-negative decimal value: p/q exactly, and
\* `abs_value.fract()` of its f64.
Fract(v) ==
    [p |-> DigitsValue(v.f, 0), q |-> Pow10(Len(v.f)),
     f64 |-> FloorAndRemainder(
                 ToF64(v.i * Pow10(Len(v.f)) + DigitsValue(v.f, 0), Pow10(Len(v.f)))).remainder]

\* The loop of decimal_to_fraction on the f64 a; ks holds the k_next of the
\* iterations before this one.
RECURSIVE ConvergentLoop(_, _, _, _)
ConvergentLoop(a, c, max_denominator, ks) ==
    LET fr == FloorAndRemainder(a)
        ai == fr.floor
        exceeds == c.k_curr >= 1 /\ ai > max_denominator
        h_next == ai * c.h_curr + c.h_prev
        k_next == ai * c.k_curr + c.k_prev
        found(h, k) == [some |-> TRUE, v |-> <<h, k>>, iterations |-> Len(ks) + 1,
                        denominators |-> IF exceeds THEN ks ELSE Append(ks, k_next)]
    IN IF exceeds \/ k_next > max_denominator
       THEN IF c.k_curr = 0 THEN None ELSE found(c.h_curr, c.k_curr)
       ELSE IF F64Less(fr.remainder, Epsilon)
       THEN IF k_next = 0 THEN None ELSE found(h_next, k_next)
       ELSE IF k_next = 0 THEN None
       ELSE ConvergentLoop(Reciprocal(fr.remainder),
                           [h_prev |-> c.h_curr, k_prev |-> c.k_curr,
                            h_curr |-> h_next, k_curr |-> k_next],
                           max_denominator, Append(ks, k_next))

\* decimal_to_fraction with the two starting convergents exchanged.
DecimalToFractionSeedsExchanged(decimal, max_denominator_digits) ==
    IF IsF64Zero(decimal)
    THEN [some |-> TRUE, v |-> <<0, 1>>, iterations |-> 0, denominators |-> <<>>]
    ELSE IF max_denominator_digits = 0 THEN None
    ELSE ConvergentLoop(decimal,
                        [h_prev |-> 1, k_prev |-> 0, h_curr |-> 0, k_curr |-> 1],
                        Pow10(max_denominator_digits) - 1, <<>>)

decimal_to_fraction(decimal, max_denominator_digits) ==
    IF IsF64Zero(decimal)
    THEN [some |-> TRUE, v |-> <<0, 1>>, iterations |-> 0, denominators |-> <<>>]
    ELSE IF max_denominator_digits = 0 THEN None
    ELSE ConvergentLoop(decimal,
                        [h_prev |-> 0, k_prev |-> 1, h_curr |-> 1, k_curr |-> 0],
                        Pow10(max_denominator_digits) - 1, <<>>)

\* `(decimal_part * fixed_den as f64).round() as i64`.
RoundedProduct(decimal, fixed_den) ==
    (2 * decimal.p * fixed_den + decimal.q) \div (2 * decimal.q)

\* str::trim_start_matches and str::trim on characters.
RECURSIVE TrimStart(_, _)
TrimStart(chars, ch) ==
    IF chars # <<>> /\ Head(chars) = ch THEN TrimStart(Tail(chars), ch) ELSE chars

RECURSIVE TrimEnd(_, _)
TrimEnd(chars, ch) ==
    IF chars # <<>> /\ chars[Len(chars)] = ch
    THEN TrimEnd(Slice(chars, 1, Len(chars) - 1), ch) ELSE chars

Trim(chars) == TrimEnd(TrimStart(chars, " "), " ")

\* The two passes over the placeholders from the right: pass 1 fills '0' and
\* '#', pass 2 fills '?'.  A slot is a sequence: empty for EMPTY_SLOT.
RECURSIVE FillSlots(_, _, _, _, _)
FillSlots(placeholders, i, st, pass, actual_value_is_zero) ==
    IF i = 0 THEN st
    ELSE LET kind == placeholders[i].k
             has == st.digits # <<>>
             digit == st.digits[Len(st.digits)]
             rest == IF has THEN Slice(st.digits, 1, Len(st.digits) - 1) ELSE <<>>
             slot ==
                 CASE pass = 1 /\ kind = "DigitOrZero" -> IF has THEN <<digit>> ELSE <<"0">>
                   [] pass = 1 /\ kind = "DigitIfNeeded" ->
                        IF has /\ ~(actual_value_is_zero /\ digit = "0" /\ rest = <<>>)
                        THEN <<digit>> ELSE <<>>
                   [] pass = 2 /\ kind = "DigitOrSpace" -> IF has THEN <<digit>> ELSE <<" ">>
                   [] OTHER -> st.slots[i]
             pops == \/ pass = 1 /\ kind \in {"DigitOrZero", "DigitIfNeeded"}
                     \/ pass = 2 /\ kind = "DigitOrSpace"
         IN Let([slots |-> [st.slots EXCEPT ![i] = slot],
                 digits |-> IF pops THEN rest ELSE st.digits],
                LAMBDA n : FillSlots(placeholders, i - 1, n, pass, actual_value_is_zero))

RECURSIVE Concat(_)
Concat(parts) == IF parts = <<>> THEN <<>> ELSE Head(parts) \o Concat(Tail(parts))

\* The segment with the digits that no placeholder took left out.
FormatSegmentWithinPlaceholders(digits_str, placeholders, actual_value_is_zero) ==
    IF /\ actual_value_is_zero
       /\ \A k \in 1..Len(digits_str) : digits_str[k] = "0"
       /\ \A k \in 1..Len(placeholders) : placeholders[k].k = "DigitIfNeeded"
    THEN <<>>
    ELSE LET effective == IF actual_value_is_zero \/ TrimStart(digits_str, "0") = <<>>
                          THEN <<"0">> ELSE TrimStart(digits_str, "0")
             n_place == Len(placeholders)
         IN Let(FillSlots(placeholders, n_place,
                          [slots |-> [k \in 1..n_place |-> <<>>], digits |-> effective],
                          1, actual_value_is_zero), LAMBDA pass1 :
            Let(FillSlots(placeholders, n_place, pass1, 2, actual_value_is_zero),
                LAMBDA pass2 : Concat(pass2.slots)))

format_integer_like_segment(digits_str, placeholders, actual_value_is_zero) ==
    IF /\ actual_value_is_zero
       /\ \A k \in 1..Len(digits_str) : digits_str[k] = "0"
       /\ \A k \in 1..Len(placeholders) : placeholders[k].k = "DigitIfNeeded"
    THEN <<>>
    ELSE LET effective == IF actual_value_is_zero \/ TrimStart(digits_str, "0") = <<>>
                          THEN <<"0">> ELSE TrimStart(digits_str, "0")
             n_place == Len(placeholders)
         IN Let(FillSlots(placeholders, n_place,
                          [slots |-> [k \in 1..n_place |-> <<>>], digits |-> effective],
                          1, actual_value_is_zero), LAMBDA pass1 :
            Let(FillSlots(placeholders, n_place, pass1, 2, actual_value_is_zero),
                LAMBDA pass2 : pass2.digits \o Concat(pass2.slots)))

Spaces(n) == [k \in 1..n |-> " "]

\* The numerator and denominator before the roll-over, None when the function
\* returns None.
RawFraction(decimal, denominator_tokens, fixed_denominator_value) ==
    IF fixed_denominator_value.some
    THEN IF fixed_denominator_value.v = 0 THEN None
         ELSE Some(<<RoundedProduct(decimal, fixed_denominator_value.v),
                     fixed_denominator_value.v>>)
    ELSE IF denominator_tokens = <<>> THEN None
    ELSE decimal_to_fraction(decimal.f64, Len(denominator_tokens))

\* A roll-over that handles only a numerator above the denominator.
RollOverOnlyAbove(abs_value, integer_part_val, num_val, den_val) ==
    IF num_val > den_val /\ den_val # 0
    THEN [int |-> IF ~IsNegativeDec(abs_value)
                  THEN integer_part_val + (num_val \div den_val)
                  ELSE integer_part_val - (num_val \div den_val),
          num |-> num_val % den_val, den |-> den_val]
    ELSE [int |-> integer_part_val, num |-> num_val, den |-> den_val]

\* The roll-over of a numerator that reaches the denominator:
\* [int, num, den], int being final_integer_val_i64.
RollOver(abs_value, integer_part_val, num_val, den_val) ==
    IF num_val = den_val /\ den_val # 0
    THEN [int |-> IF ~IsNegativeDec(abs_value) THEN integer_part_val + 1
                  ELSE integer_part_val - 1,
          num |-> 0, den |-> den_val]
    ELSE IF num_val > den_val /\ den_val # 0
    THEN [int |-> IF ~IsNegativeDec(abs_value)
                  THEN integer_part_val + (num_val \div den_val)
                  ELSE integer_part_val - (num_val \div den_val),
          num |-> num_val % den_val, den |-> den_val]
    ELSE [int |-> integer_part_val, num |-> num_val, den |-> den_val]

\* `abs_value.trunc() as i64` and i64::abs.
Trunc(v) == IF v.neg THEN 0 - v.i ELSE v.i
AbsInt(n) == IF n < 0 THEN 0 - n ELSE n

\* int_part_formatted and display_int_part: [text, display].
IntegerDisplay(n, a) ==
    LET is_zero == n.int = 0
        HasIntToken(kind) ==
            \E k \in 1..Len(a.integer_part_tokens) : a.integer_part_tokens[k].k = kind
        single_zero == a.integer_part_tokens = <<Tok("DigitOrZero")>>
        formatted0 == IF a.integer_part_tokens = <<>> THEN <<>>
                      ELSE format_integer_like_segment(to_string(AbsInt(n.int)),
                                                       a.integer_part_tokens, is_zero)
        non_literal == SelectSeq(a.integer_part_tokens, LAMBDA t : t.k # "LiteralChar")
        only_hash_and_spaces_in_int_tokens ==
            /\ Len(non_literal) = 1 /\ non_literal[1].k = "DigitIfNeeded"
            /\ \A k \in 1..Len(a.integer_part_tokens) :
                   \/ a.integer_part_tokens[k].k = "DigitIfNeeded"
                   \/ a.integer_part_tokens[k] = LiteralChar(" ")
        s1 == IF is_zero /\ n.num # 0 /\ single_zero
              THEN [text |-> <<" ">>, display |-> TRUE]
              ELSE [text |-> formatted0,
                    display |-> formatted0 # <<>>
                                \/ (is_zero /\ n.num = 0 /\ HasIntToken("DigitOrZero"))]
        s2 == IF is_zero /\ n.num = 0 /\ only_hash_and_spaces_in_int_tokens
                 /\ a.section_has_only_placeholders
              THEN [text |-> <<"0">>, display |-> TRUE]
              ELSE s1
    IN IF /\ is_zero /\ single_zero /\ a.section_has_only_placeholders
          /\ (a.numerator_tokens # <<>> \/ a.denominator_tokens # <<>>
              \/ a.fixed_denominator_value.some)
          /\ Trim(s2.text) = <<>>
       THEN [s2 EXCEPT !.display = FALSE]
       ELSE s2

\* result_str before the sign is put in front.
FractionText(n, d, a) ==
    LET parts == IF d.display THEN d.text ELSE <<>>
        with_fraction == a.has_explicit_slash \/ a.fixed_denominator_value.some
        force_display_fraction_as_zero_denom ==
            /\ IsZeroDec(a.value) /\ a.section_has_only_placeholders
            /\ a.integer_part_tokens = <<>>
            /\ (a.fixed_denominator_value.some \/ a.denominator_tokens # <<>>)
        current_num_val == IF force_display_fraction_as_zero_denom THEN 0 ELSE n.num
        current_den_val == IF force_display_fraction_as_zero_denom /\ n.den = 0 THEN 1
                           ELSE n.den
        formatted_numerator ==
            format_integer_like_segment(to_string(current_num_val), a.numerator_tokens, FALSE)
        gap == IF d.display
               THEN IF d.text # <<>> /\ d.text[Len(d.text)] # " " THEN <<" ">> ELSE <<>>
               ELSE IF /\ n.int = 0
                       /\ \E k \in 1..Len(a.integer_part_tokens) :
                              a.integer_part_tokens[k].k = "DigitIfNeeded"
                       /\ ~StartsWith(formatted_numerator, " ")
                       /\ a.numerator_tokens # <<>>
                    THEN <<" ">> ELSE <<>>
        den_fmt_raw ==
            IF a.fixed_denominator_value.some THEN to_string(current_den_val)
            ELSE format_integer_like_segment(to_string(current_den_val),
                                             a.denominator_tokens, FALSE)
        den_fmt_final ==
            IF ~a.fixed_denominator_value.some /\ a.denominator_tokens # <<>>
            THEN TrimStart(den_fmt_raw, " ")
                 \o Spaces(Len(den_fmt_raw) - Len(TrimStart(den_fmt_raw, " ")))
            ELSE den_fmt_raw
    IN IF ~force_display_fraction_as_zero_denom /\ n.num = 0
       THEN IF a.section_has_only_placeholders
            THEN parts \o Spaces(Len(a.numerator_tokens))
                 \o (IF with_fraction /\ (a.numerator_tokens # <<>>
                                         \/ a.denominator_tokens # <<>>
                                         \/ a.fixed_denominator_value.some)
                     THEN <<" ">> ELSE <<>>)
                 \o Spaces(Len(a.denominator_tokens))
            ELSE IF parts = <<>> THEN <<"0">> ELSE parts
       ELSE parts \o gap \o formatted_numerator
            \o (IF with_fraction THEN <<"/">> ELSE <<>>) \o den_fmt_final

\* format_number_as_fraction on the arguments a; value is the non-negative
\* value_for_formatting_placeholders.  The result carries, next to the
\* Option<String>, the integer part, numerator and denominator after the
\* roll-over.
format_number_as_fraction(a) ==
    Let(RawFraction(Fract(a.value), a.denominator_tokens, a.fixed_denominator_value),
        LAMBDA raw :
    IF ~raw.some THEN [some |-> FALSE, int |-> 0, num |-> 0, den |-> 0, out |-> <<>>]
    ELSE
    Let(RollOver(a.value, Trunc(a.value), raw.v[1], raw.v[2]), LAMBDA n :
    Let(IntegerDisplay(n, a), LAMBDA d :
    Let(FractionText(n, d, a), LAMBDA result_str :
        LET signed == IF /\ IsNegativeDec(a.original_value_for_sign)
                         /\ result_str # <<>>
                         /\ Trim(result_str) # <<"0">>
                         /\ ~StartsWith(result_str, "-")
                      THEN <<"-">> \o result_str ELSE result_str
        IN [some |-> TRUE, int |-> n.int, num |-> n.num, den |-> n.den,
            out |-> IF signed = <<>> /\ n.int = 0 /\ n.num = 0 THEN <<"0">> ELSE signed]))))

(***************************************************************************)
(* types.rs: the default LocaleSettings the date renderer reads.           *)
(***************************************************************************)
ampm_markers ==
    << <<"A","M">>, <<"P","M">> >>
short_day_names ==
    << <<"S","u","n">>, <<"M","o","n">>, <<"T","u","e">>, <<"W","e","d">>,
       <<"T","h","u">>, <<"F","r","i">>, <<"S","a","t">> >>
day_names ==
    << <<"S","u","n","d","a","y">>, <<"M","o","n","d","a","y">>, <<"T","u","e","s","d","a","y">>,
       <<"W","e","d","n","e","s","d","a","y">>, <<"T","h","u","r","s","d","a","y">>, <<"F","r","i","d","a","y">>,
       <<"S","a","t","u","r","d","a","y">> >>
short_month_names ==
    << <<"J","a","n">>, <<"F","e","b">>, <<"M","a","r">>, <<"A","p","r">>,
       <<"M","a","y">>, <<"J","u","n">>, <<"J","u","l">>, <<"A","u","g">>,
       <<"S","e","p">>, <<"O","c","t">>, <<"N","o","v">>, <<"D","e","c">> >>
month_names ==
    << <<"J","a","n","u","a","r","y">>, <<"F","e","b","r","u","a","r","y">>, <<"M","a","r","c","h">>,
       <<"A","p","r","i","l">>, <<"M","a","y">>, <<"J","u","n","e">>,
       <<"J","u","l","y">>, <<"A","u","g","u","s","t">>, <<"S","e","p","t","e","m","b","e","r">>,
       <<"O","c","t","o","b","e","r">>, <<"N","o","v","e","m","b","e","r">>, <<"D","e","c","e","m","b","e","r">> >>
(***************************************************************************)
(* formatter/datetime/conversion.rs: convert_f64_to_datetime.  A date is   *)
(* a number of days from 1900-01-01 (-1 for 1899-12-31), a time is whole   *)
(* seconds plus the fraction r/q of a second.                              *)
(***************************************************************************)
\* time_fraction * 86400.0 for the fractional digits f: [secs, r, q].
SecondsOfDay(f) ==
    LET p == DigitsValue(f, 0)
        k == Len(f)
        unit == IF k >= 2 THEN 864 ELSE 86400
        q == IF k >= 2 THEN Pow10(k - 2) ELSE Pow10(k)
        rest == unit * (p % q)
    IN [secs |-> unit * (p \div q) + rest \div q, r |-> rest % q, q |-> q]

\* chrono: NaiveDate::from_ymd_opt(1900, 1, 1) plus a number of days.
IsLeapYear(y) == (y % 4 = 0 /\ y % 100 # 0) \/ y % 400 = 0

DaysInMonth(y, m) ==
    IF m = 2 THEN (IF IsLeapYear(y) THEN 29 ELSE 28)
    ELSE IF m \in {4, 6, 9, 11} THEN 30 ELSE 31

RECURSIVE DateWalk(_, _, _)
DateWalk(y, m, n) ==
    IF m = 1 /\ n >= (IF IsLeapYear(y) THEN 366 ELSE 365)
    THEN DateWalk(y + 1, 1, n - (IF IsLeapYear(y) THEN 366 ELSE 365))
    ELSE IF n >= DaysInMonth(y, m) THEN DateWalk(y, m + 1, n - DaysInMonth(y, m))
    ELSE [year |-> y, month |-> m, day |-> n + 1]

DateOf(days) ==
    IF days < 0 THEN [year |-> 1899, month |-> 12, day |-> 32 + days]
    ELSE DateWalk(1900, 1, days)

\* Weekday::num_days_from_sunday; 1900-01-01 is a Monday.
WeekdayOf(days) == (days + 1) % 7

\* None for a negative value, else the NaiveDateTime as [days, secs, r, q].
convert_f64_to_datetime(v) ==
    IF IsNegativeDec(v) THEN None
    ELSE LET excel_serial_day_part == v.i
             t == SecondsOfDay(v.f)
             days == IF excel_serial_day_part = 0 THEN 0 - 1
                     ELSE IF excel_serial_day_part > 60 THEN excel_serial_day_part - 2
                     ELSE excel_serial_day_part - 1
         IN Some([days |-> days, secs |-> t.secs, r |-> t.r, q |-> t.q])

\* Half a second added to the time of day with the date left alone.
AddHalfSecondWithinDay(dt) ==
    LET r2 == 2 * dt.r + dt.q
        carry == IF r2 >= 2 * dt.q THEN 1 ELSE 0
    IN [days |-> dt.days, secs |-> (dt.secs + carry) % 86400,
        r |-> r2 % (2 * dt.q), q |-> 2 * dt.q]

\* checked_add_signed(Duration::nanoseconds(500_000_000)).
AddHalfSecond(dt) ==
    LET r2 == 2 * dt.r + dt.q
        carry == IF r2 >= 2 * dt.q THEN 1 ELSE 0
        s == dt.secs + carry
    IN [days |-> IF s >= 86400 THEN dt.days + 1 ELSE dt.days,
        secs |-> s % 86400, r |-> r2 % (2 * dt.q), q |-> 2 * dt.q]

(***************************************************************************)
(* formatter/datetime/utils.rs.                                            *)
(***************************************************************************)
Pad2(n) == IF n < 10 THEN <<"0">> \o to_string(n) ELSE to_string(n)

\* `c.to_uppercase()` on ASCII.
Upper(c) ==
    IF \E j \in 1..26 : LowerLetters[j] = c
    THEN UpperLetters[CHOOSE j \in 1..26 : LowerLetters[j] = c]
    ELSE c

\* f64::to_string of a decimal.
ValueToString(v) ==
    LET f == TrimEnd([j \in 1..Len(v.f) |-> DigitChars[v.f[j] + 1]], "0")
    IN (IF v.neg THEN <<"-">> ELSE <<>>) \o to_string(v.i)
           \o (IF f = <<>> THEN <<>> ELSE <<".">> \o f)

special_dates(v, toks) ==
    IF v.i = 60 /\ ~v.neg /\ AllZero(v.f)
    THEN LET piece(t) ==
                 CASE t.k = "YearTwoDigit" -> <<"0", "0">>
                   [] t.k = "YearFourDigit" -> <<"1", "9", "0", "0">>
                   [] t.k = "MonthNum" -> <<"2">>
                   [] t.k = "MonthNumPadded" -> <<"0", "2">>
                   [] t.k = "MonthAbbr" -> short_month_names[2]
                   [] t.k = "MonthFullName" -> month_names[2]
                   [] t.k = "MonthLetter" -> <<"F">>
                   [] t.k \in {"DayNum", "DayNumPadded"} -> <<"2", "9">>
                   [] t.k = "WeekdayAbbr" -> short_day_names[4]
                   [] t.k = "WeekdayFullName" -> day_names[4]
                   [] t.k \in {"LiteralChar", "QuotedText"} -> t.c
                   [] t.k = "SkipWidth" -> <<" ">>
                   [] OTHER -> <<>>
         IN Some(Concat([j \in 1..Len(toks) |-> piece(toks[j])]))
    ELSE None

\* The first `precision` (at most 9) decimal digits of r/q of a second.
RECURSIVE format_fractional_seconds(_, _, _)
format_fractional_seconds(r, q, precision) ==
    IF precision = 0 THEN <<>>
    ELSE <<DigitChars[((r * 10) \div q) + 1]>>
             \o format_fractional_seconds((r * 10) % q, q, precision - 1)

extract_currency_prefix(toks) ==
    LET hits == {j \in 1..Len(toks) :
                    /\ toks[j].k = "CurrencySymbolLocalePrefixed"
                    /\ FindChar(toks[j].c, 1, "-") > 1}
    IN IF hits = {} THEN None
       ELSE LET j == CHOOSE h \in hits : \A o \in hits : h <= o
            IN Some(Slice(toks[j].c, 1, FindChar(toks[j].c, 1, "-") - 1))

has_fractional_seconds(toks) ==
    \E j \in 1..Len(toks) - 1 :
        toks[j].k = "DecimalPoint" /\ toks[j + 1].k = "DigitOrZero"

(***************************************************************************)
(* formatter/datetime/point_in_time.rs.                                    *)
(***************************************************************************)
extract_locale_code_from_string(text) ==
    IF StartsWith(text, "-") THEN Some(Slice(text, 2, Len(text)))
    ELSE LET index == FindChar(text, 1, "-")
         IN IF index > 0 /\ index < Len(text)
            THEN Some(Slice(text, index + 1, Len(text)))
            ELSE None

\* The loop that opens format_datetime: the context after it.
LocaleContextSet(toks, ctx) ==
    LET hits == {j \in 1..Len(toks) :
                    /\ toks[j].k = "CurrencySymbolLocalePrefixed"
                    /\ extract_locale_code_from_string(toks[j].c).some}
    IN IF hits = {} THEN ctx
       ELSE extract_locale_code_from_string(
                toks[CHOOSE h \in hits : \A o \in hits : h <= o].c)

\* An hour shown on the 12-hour clock whatever its place in the section.
FormatHourAlwaysTwelve(hour, has_ampm_in_section, is_last_hour_token, padded) ==
    LET hour_to_display ==
            IF has_ampm_in_section
            THEN (IF hour = 0 \/ hour = 12 THEN 12 ELSE hour % 12)
            ELSE hour
    IN IF padded THEN Pad2(hour_to_display) ELSE to_string(hour_to_display)

format_hour(hour, has_ampm_in_section, is_last_hour_token, padded) ==
    LET hour_to_display ==
            IF has_ampm_in_section /\ is_last_hour_token
            THEN (IF hour = 0 \/ hour = 12 THEN 12 ELSE hour % 12)
            ELSE hour
    IN IF padded THEN Pad2(hour_to_display) ELSE to_string(hour_to_display)

format_am_pm(hour, style, single_letter) ==
    LET marker == IF hour < 12 THEN ampm_markers[1] ELSE ampm_markers[2]
        cased == IF style = <<"UpperCase">>
                 THEN [j \in 1..Len(marker) |-> Upper(marker[j])]
                 ELSE [j \in 1..Len(marker) |-> Lower(marker[j])]
    IN IF single_letter THEN Slice(cased, 1, 1) ELSE cased

MonthLetters == <<"J", "F", "M", "A", "M", "J", "J", "A", "S", "O", "N", "D">>

\* `{:?}` of the NaiveDateTime dt.
DebugDateTime(dt) ==
    LET d == DateOf(dt.days)
        nine == format_fractional_seconds(dt.r, dt.q, 9)
        zeros(n) == [j \in 1..n |-> "0"]
        frac == IF nine = zeros(9) THEN <<>>
                ELSE IF Slice(nine, 4, 9) = zeros(6) THEN <<".">> \o Slice(nine, 1, 3)
                ELSE IF Slice(nine, 7, 9) = zeros(3) THEN <<".">> \o Slice(nine, 1, 6)
                ELSE <<".">> \o nine
    IN to_string(d.year) \o <<"-">> \o Pad2(d.month) \o <<"-">> \o Pad2(d.day)
           \o <<"T">> \o Pad2(dt.secs \div 3600) \o <<":">>
           \o Pad2((dt.secs \div 60) % 60) \o <<":">> \o Pad2(dt.secs % 60) \o frac

\* The number of tokens a decimal point takes with it: the DigitOrZero run
\* that follows it, as far as the lookahead counts it.
RECURSIVE ZeroRun(_, _)
ZeroRun(toks, j) ==
    IF j <= Len(toks) /\ toks[j].k = "DigitOrZero" THEN 1 + ZeroRun(toks, j + 1) ELSE 0

\* The loop of format_datetime_value from token index j on.
RECURSIVE DatetimeLoop(_, _, _, _, _)
DatetimeLoop(dt_display, dt_original, toks, j, result) ==
    IF j > Len(toks) THEN result
    ELSE
    LET t == toks[j]
        d == DateOf(dt_display.days)
        hour == dt_display.secs \div 3600
        has_ampm_in_section == \E n \in 1..Len(toks) : toks[n].k \in {"AmPm", "AP"}
        is_last_hour_token ==
            \A n \in (j + 1)..Len(toks) : toks[n].k \notin {"Hour12Or24", "Hour12Or24Padded"}
        run == ZeroRun(toks, j + 1)
        placeholders_processed_count == IF run > 9 THEN 10 ELSE run
        piece ==
            CASE t.k = "YearTwoDigit" -> Pad2(d.year % 100)
              [] t.k = "YearFourDigit" -> to_string(d.year)
              [] t.k \in {"MonthNum", "MonthOrMinute1"} -> to_string(d.month)
              [] t.k \in {"MonthNumPadded", "MonthOrMinute2"} -> Pad2(d.month)
              [] t.k = "MonthAbbr" -> short_month_names[d.month]
              [] t.k = "MonthFullName" -> month_names[d.month]
              [] t.k = "MonthLetter" -> <<MonthLetters[d.month]>>
              [] t.k = "DayNum" -> to_string(d.day)
              [] t.k = "DayNumPadded" -> Pad2(d.day)
              [] t.k = "WeekdayAbbr" -> short_day_names[WeekdayOf(dt_display.days) + 1]
              [] t.k = "WeekdayFullName" -> day_names[WeekdayOf(dt_display.days) + 1]
              [] t.k \in {"Hour12Or24", "Hour12Or24Padded"} ->
                     format_hour(hour, has_ampm_in_section, is_last_hour_token,
                                 t.k = "Hour12Or24Padded")
              [] t.k = "MinuteNum" -> to_string((dt_display.secs \div 60) % 60)
              [] t.k = "MinuteNumPadded" -> Pad2((dt_display.secs \div 60) % 60)
              [] t.k = "SecondNum" -> to_string(dt_display.secs % 60)
              [] t.k = "SecondNumPadded" -> Pad2(dt_display.secs % 60)
              [] t.k = "AmPm" -> format_am_pm(hour, t.c, FALSE)
              [] t.k = "AP" -> format_am_pm(hour, t.c, TRUE)
              [] t.k = "ElapsedHours" -> <<"[", "h", "]">>
              [] t.k = "ElapsedMinutes" -> <<"[", "m", "]">>
              [] t.k = "ElapsedSeconds" -> <<"[", "s", "]">>
              [] t.k = "ElapsedHoursPadded" -> <<"[", "h", "h", "]">>
              [] t.k = "ElapsedMinutesPadded" -> <<"[", "m", "m", "]">>
              [] t.k = "ElapsedSecondsPadded" -> <<"[", "s", "s", "]">>
              [] t.k = "DecimalPoint" ->
                     <<".">> \o format_fractional_seconds(
                                    dt_original.r, dt_original.q,
                                    IF placeholders_processed_count > 9 THEN 9
                                    ELSE placeholders_processed_count)
              [] t.k = "ThousandsSeparator" -> <<",">>
              [] t.k \in {"LiteralChar", "QuotedText"} -> t.c
              [] t.k = "SkipWidth" -> <<" ">>
              [] OTHER -> <<>>
        skip == IF t.k = "DecimalPoint" THEN placeholders_processed_count ELSE 0
    IN Let(result \o piece,
           LAMBDA r : DatetimeLoop(dt_display, dt_original, toks, j + 1 + skip, r))

format_datetime_value(dt_display, dt_original, toks) ==
    Let(DatetimeLoop(dt_display, dt_original, toks, 1, <<>>), LAMBDA result :
        IF result = <<>> /\ toks # <<>>
        THEN <<"D","T","_","C","O","N","V","E","R","T","E","D",":"," ">>
                 \o DebugDateTime(dt_display)
        ELSE result)

\* A return that clears the context on every path but the special date's.
ContextLeftBySpecialDate(path, set) == IF path = "special" THEN set ELSE None

\* set_locale_context(None), which precedes every return of format_datetime:
\* the LOCALE_CONTEXT the call leaves.
ContextOnReturn(path, set) == None

\* format_datetime entered with LOCALE_CONTEXT = ctx: the string it
\* returns, the path it returns by and the LOCALE_CONTEXT it leaves.
format_datetime(v, toks, ctx) ==
    LET set == LocaleContextSet(toks, ctx)
        special_result == special_dates(v, toks)
        converted == convert_f64_to_datetime(v)
        prefix == extract_currency_prefix(toks)
        return(out, path) ==
            [out |-> out, path |-> path, ctx |-> ContextOnReturn(path, set)]
    IN IF special_result.some THEN return(special_result.v, "special")
       ELSE IF ~converted.some
       THEN return(<<"I","N","V","A","L","I","D","_","D","A","T","E","_",
                     "S","E","R","I","A","L",":"," ">> \o ValueToString(v), "invalid")
       ELSE IF set.some /\ set.v = <<"1", "1", "1">> THEN return(ValueToString(v), "111")
       ELSE Let(format_datetime_value(
                    IF has_fractional_seconds(toks) THEN converted.v
                    ELSE AddHalfSecond(converted.v),
                    converted.v, toks),
                LAMBDA formatted :
                    IF prefix.some THEN return(prefix.v \o formatted, "prefix")
                    ELSE return(formatted, "normal"))

(***************************************************************************)
(* formatter/datetime/duration.rs.  A total of seconds is whole seconds    *)
(* plus r/q of a second, q a power of ten.                                 *)
(***************************************************************************)
section_is_duration(toks) ==
    \E j \in 1..Len(toks) :
        toks[j].k \in {"ElapsedHours", "ElapsedMinutes", "ElapsedSeconds",
                       "ElapsedHoursPadded", "ElapsedMinutesPadded", "ElapsedSecondsPadded"}

\* utils.rs: the scan of count_fractional_second_digits from token j on;
\* st = [num, max, in_block, preceded].
RECURSIVE CountLoop(_, _, _)
CountLoop(toks, j, st) ==
    IF j > Len(toks) THEN st
    ELSE
    LET k == toks[j].k
        after ==
            IF k \in {"SecondNum", "SecondNumPadded"}
            THEN [st EXCEPT !.preceded = TRUE, !.in_block = FALSE, !.num = 0]
            ELSE IF k = "DecimalPoint"
            THEN (IF st.preceded THEN [st EXCEPT !.in_block = TRUE, !.num = 0]
                  ELSE [st EXCEPT !.in_block = FALSE, !.preceded = FALSE])
            ELSE IF k = "DigitOrZero"
            THEN (IF st.in_block /\ st.preceded THEN [st EXCEPT !.num = @ + 1]
                  ELSE [st EXCEPT !.in_block = FALSE, !.preceded = FALSE])
            ELSE [st EXCEPT !.max = IF st.in_block /\ st.num > @ THEN st.num ELSE @,
                            !.in_block = FALSE, !.preceded = FALSE]
        kept == IF after.in_block /\ after.num > after.max
                THEN [after EXCEPT !.max = after.num] ELSE after
    IN CountLoop(toks, j + 1, kept)

count_fractional_second_digits(toks) ==
    LET st == CountLoop(toks, 1, [num |-> 0, max |-> 0, in_block |-> FALSE,
                                  preceded |-> FALSE])
    IN IF st.max > 9 THEN 9 ELSE st.max

\* value * 86400.0: [secs, r, q].
TotalSeconds(v) ==
    LET t == SecondsOfDay(v.f)
    IN [secs |-> v.i * 86400 + t.secs, r |-> t.r, q |-> t.q]

\* The smaller of two exponents.
MinPow(a, b) == IF a < b THEN a ELSE b

round_seconds(total, num_frac_digits) ==
    LET unit == Pow10(MinPow(num_frac_digits, 4))
    IN IF total.q <= unit THEN total
       ELSE LET step == total.q \div unit
                up == (2 * (total.r % step) >= step)
                scaled == (total.r \div step) + (IF up THEN 1 ELSE 0)
            IN IF scaled = unit
               THEN [secs |-> total.secs + 1, r |-> 0, q |-> unit]
               ELSE [secs |-> total.secs, r |-> scaled, q |-> unit]

\* Components whose minutes field is not wrapped at 60.
TimeComponentsUnwrapped(total) ==
    [hours |-> total.secs \div 3600,
     minutes |-> total.secs \div 60,
     minutes_total |-> total.secs \div 60,
     seconds |-> total.secs % 60,
     seconds_total |-> total.secs,
     nanos |-> [r |-> total.r, q |-> total.q]]

calculate_time_components(total) ==
    [hours |-> total.secs \div 3600,
     minutes |-> (total.secs \div 60) % 60,
     minutes_total |-> total.secs \div 60,
     seconds |-> total.secs % 60,
     seconds_total |-> total.secs,
     nanos |-> [r |-> total.r, q |-> total.q]]

\* handle_fractional_seconds at token j, the token after a second token:
\* [text, next].
handle_fractional_seconds(toks, j, nanos) ==
    IF j <= Len(toks) /\ toks[j].k = "DecimalPoint"
    THEN LET run == ZeroRun(toks, j + 1)
             current_frac_sec_placeholders == IF run > 9 THEN 9 ELSE run
         IN [text |-> <<".">> \o format_fractional_seconds(
                                     nanos.r, nanos.q, current_frac_sec_placeholders),
             next |-> j + 1 + current_frac_sec_placeholders]
    ELSE [text |-> <<>>, next |-> j]

RECURSIVE DurationLoop(_, _, _, _)
DurationLoop(toks, c, j, result) ==
    IF j > Len(toks) THEN result
    ELSE
    LET t == toks[j]
        frac == IF t.k \in {"SecondNum", "SecondNumPadded"}
                THEN handle_fractional_seconds(toks, j + 1, c.nanos)
                ELSE [text |-> <<>>, next |-> j + 1]
        piece ==
            CASE t.k = "ElapsedHours" -> to_string(c.hours)
              [] t.k = "ElapsedHoursPadded" -> Pad2(c.hours)
              [] t.k = "ElapsedMinutes" -> to_string(c.minutes_total)
              [] t.k = "ElapsedMinutesPadded" -> Pad2(c.minutes_total)
              [] t.k = "ElapsedSeconds" -> to_string(c.seconds_total)
              [] t.k = "ElapsedSecondsPadded" -> Pad2(c.seconds_total)
              [] t.k \in {"MonthOrMinute1", "MinuteNum"} -> to_string(c.minutes)
              [] t.k \in {"MonthOrMinute2", "MinuteNumPadded"} -> Pad2(c.minutes)
              [] t.k = "SecondNum" -> to_string(c.seconds) \o frac.text
              [] t.k = "SecondNumPadded" -> Pad2(c.seconds) \o frac.text
              [] t.k \in {"LiteralChar", "QuotedText"} -> t.c
              [] t.k = "SkipWidth" -> <<" ">>
              [] OTHER -> <<>>
    IN Let(result \o piece, LAMBDA r : DurationLoop(toks, c, frac.next, r))

format_duration_with_tokens(toks, c) == DurationLoop(toks, c, 1, <<>>)

\* format_duration past its check of the sign.
DurationText(v, toks) ==
    format_duration_with_tokens(
        toks,
        calculate_time_components(
            round_seconds(TotalSeconds(v), count_fractional_second_digits(toks))))

NegativeDurationError(v) ==
    <<"E","R","R","O","R",":"," ","N","e","g","a","t","i","v","e"," ",
      "v","a","l","u","e"," ","(">> \o ValueToString(v)
        \o <<")"," ","n","o","t"," ","a","l","l","o","w","e","d"," ","f","o","r"," ",
             "d","u","r","a","t","i","o","n"," ","f","o","r","m","a","t",".">>

\* A renderer that takes the magnitude of a negative value.
FormatDurationOfMagnitude(v, toks) == DurationText(AbsDec(v), toks)

format_duration(v, toks) ==
    IF IsNegativeDec(v) THEN NegativeDurationError(v) ELSE DurationText(v, toks)

(***************************************************************************)
(* formatter/exponential.rs: format_exponential.  The magnitude is the     *)
(* digit string of its decimal expansion; log10, powf and the division     *)
(* are the exact ones.                                                     *)
(***************************************************************************)
\* The digits of the integer part followed by those of the fraction.
AllDigits(v) ==
    LET int == to_string(v.i)
    IN [j \in 1..Len(int) |-> DigitVal(int[j])] \o v.f

RECURSIVE LeadingZeros(_)
LeadingZeros(digits) ==
    IF digits # <<>> /\ Head(digits) = 0 THEN 1 + LeadingZeros(Tail(digits)) ELSE 0

\* (mantissa, exponent) of lines 23-30: the digits of the mantissa, the
\* first one before its decimal point, and floor(log10(abs_value)).
MantissaAndExponent(v) ==
    LET digits == AllDigits(v)
        lead == LeadingZeros(digits)
    IN IF IsZeroDec(v) THEN [mantissa |-> <<0>>, exponent |-> 0]
       ELSE [mantissa |-> SubSeq(digits, lead + 1, Len(digits)),
             exponent |-> Len(to_string(v.i)) - 1 - lead]

\* mantissa_precision: the digit placeholders after a decimal point among
\* the tokens before the exponential token.
mantissa_precision(toks, exp_token_idx) ==
    LET first == FirstDecimalPoint(SubSeq(toks, 1, exp_token_idx - 1))
    IN IF first = 0 THEN 0
       ELSE Cardinality({j \in (first + 1)..(exp_token_idx - 1) :
                            toks[j].k \in DigitPlaceholders})

\* digits + 1 in the last place: [digits, carry].
RECURSIVE AddOne(_)
AddOne(digits) ==
    IF digits = <<>> THEN [digits |-> <<>>, carry |-> TRUE]
    ELSE LET n == Len(digits)
         IN IF digits[n] < 9
            THEN [digits |-> [digits EXCEPT ![n] = @ + 1], carry |-> FALSE]
            ELSE LET rest == AddOne(SubSeq(digits, 1, n - 1))
                 IN [digits |-> rest.digits \o <<0>>, carry |-> rest.carry]

\* A rounding that drops the digits beyond the precision.
TruncatedMantissa(mantissa, precision) ==
    [digits |-> [j \in 1..(precision + 1) |->
                     IF j <= Len(mantissa) THEN mantissa[j] ELSE 0],
     carry |-> FALSE]

\* (mantissa * power).round() / power: the 1 + precision digits of the
\* rounded mantissa, and whether it reached 10.
RoundedMantissa(mantissa, precision) ==
    LET kept == [j \in 1..(precision + 1) |->
                    IF j <= Len(mantissa) THEN mantissa[j] ELSE 0]
        up == Len(mantissa) > precision + 1 /\ mantissa[precision + 2] >= 5
    IN IF up THEN AddOne(kept) ELSE [digits |-> kept, carry |-> FALSE]

format_exponential(v, toks, exp_token_idx) ==
    LET me == MantissaAndExponent(v)
        precision == mantissa_precision(toks, exp_token_idx)
        rounded == RoundedMantissa(me.mantissa, precision)
        final_mantissa ==
            IF rounded.carry THEN <<1>> \o SubSeq(rounded.digits, 1, precision)
            ELSE rounded.digits
        final_exponent == IF rounded.carry THEN me.exponent + 1 ELSE me.exponent
        chars == [j \in 1..Len(final_mantissa) |-> DigitChars[final_mantissa[j] + 1]]
        mantissa_str ==
            IF precision = 0 THEN chars
            ELSE <<chars[1]>> \o <<decimal_point>> \o SubSeq(chars, 2, Len(chars))
        final_exp_sign_str ==
            IF final_exponent < 0 THEN <<"-">>
            ELSE IF toks[exp_token_idx].c = <<"Plus">> THEN <<"+">> ELSE <<>>
    IN (IF IsNegativeDec(v) THEN <<"-">> ELSE <<>>)
           \o mantissa_str \o <<"E">> \o final_exp_sign_str \o Pad2(AbsInt(final_exponent))

(***************************************************************************)
(* Calls of parse_number_format and of the resolver.  The format strings   *)
(* come from four families: sections joined by ';', short strings over the *)
(* characters that quote, escape and separate, date/time lexemes, and      *)
(* strings that contain "general".                                         *)
(***************************************************************************)
MaxSegments == 5
MaxChars == 4
MaxDateLexemes == 4

SeqsUpTo(S, n) == UNION {[1..m -> S] : m \in 0..n}

RECURSIVE Join(_, _)
Join(segs, sep) ==
    IF segs = <<>> THEN <<>>
    ELSE IF Len(segs) = 1 THEN segs[1]
    ELSE segs[1] \o sep \o Join(Tail(segs), sep)

SegmentChoices ==
    {<<>>, <<"0">>, <<"[", ">", "1", "]", "0">>, <<"@">>, <<"h", ":", "m">>}

SegmentStrings == {Join(q, <<";">>) : q \in SeqsUpTo(SegmentChoices, MaxSegments) \ {<<>>}}

SplitChars == {";", "\\", "\"", "*", "_", "0", "x"}

SplitStrings == SeqsUpTo(SplitChars, MaxChars)

DateLexemes ==
    {<<"m">>, <<"m", "m">>, <<"h">>, <<"s">>, <<":">>, <<"d">>, <<"A", "/", "P">>, <<" ">>}

DateStrings == {Join(q, <<>>) : q \in SeqsUpTo(DateLexemes, MaxDateLexemes)}

GeneralStrings ==
    {<<"G", "e", "n", "e", "r", "a", "l">>,
     <<"0", ";", "g", "e", "n", "e", "r", "a", "l">>,
     <<"[", "R", "e", "d", "]", "G", "E", "N", "E", "R", "A", "L", ";", ";", ";", ";", ";">>,
     <<"0", ".", "0", "x", "g", "E", "n", "E", "r", "A", "l", "x">>}

ParserInputs == SegmentStrings \cup SplitStrings \cup DateStrings \cup GeneralStrings

InitCompile ==
    /\ pc = "compile"
    /\ input \in ParserInputs
    /\ compiled = None
    /\ tokens = <<>> /\ resolved = <<>>
    /\ value = F(0) /\ format = None /\ selected = "none"
    /\ number = NoNumber /\ rendered = NotRendered
    /\ call = None /\ returned = None /\ LOCALE_CONTEXT = None

\* The vector `parts` as the token loop of parse_section_tokens leaves it.
InitResolve ==
    /\ pc = "resolve"
    /\ tokens \in {TokenLoop(s, 1, <<>>).toks : s \in DateStrings}
    /\ resolved = <<>>
    /\ input = <<>> /\ compiled = None
    /\ value = F(0) /\ format = None /\ selected = "none"
    /\ number = NoNumber /\ rendered = NotRendered
    /\ call = None /\ returned = None /\ LOCALE_CONTEXT = None

InitParser == InitCompile \/ InitResolve

Compile ==
    /\ pc = "compile"
    /\ compiled' = parse_number_format(input)
    /\ pc' = "compiled"
    /\ UNCHANGED <<input, tokens, resolved>>
    /\ UNCHANGED selVars
    /\ UNCHANGED renderVars
    /\ UNCHANGED callVars

Resolve ==
    /\ pc = "resolve"
    /\ resolved' = resolve_month_minute_ambiguity_in_section(tokens)
    /\ pc' = "resolved"
    /\ UNCHANGED <<input, compiled, tokens>>
    /\ UNCHANGED selVars
    /\ UNCHANGED renderVars
    /\ UNCHANGED callVars

NextParser == Compile \/ Resolve

SpecParser == InitParser /\ [][NextParser]_vars

(***************************************************************************)
(* Claims about parse_number_format and the resolver.                      *)
(***************************************************************************)
Sections(nf) ==
    <<Some(nf.positive_section), nf.negative_section, nf.zero_section, nf.text_section>>

ContainsGeneral(s) == \E i \in 1..Len(s) : StartsWithCaselessAt(s, i, General)

\* The segments of a string cut at every ';' character.
RECURSIVE SegmentsOf(_, _)
SegmentsOf(s, cur) ==
    IF s = <<>> THEN <<cur>>
    ELSE IF Head(s) = ";" THEN <<cur>> \o SegmentsOf(Tail(s), <<>>)
    ELSE SegmentsOf(Tail(s), Append(cur, Head(s)))

\* Strings in which every ';' character separates two segments.
NoQuoting(s) ==
    /\ ~ContainsGeneral(s)
    /\ \A i \in 1..Len(s) : s[i] \notin {"\"", "\\", "*", "_", "$"}

StartsWithCondition(seg) == parse_condition(seg, 1).ok

ThreeConditions(s) ==
    /\ NoQuoting(s)
    /\ Len(SegmentsOf(s, <<>>)) >= 3
    /\ \A k \in 1..3 : StartsWithCondition(SegmentsOf(s, <<>>)[k])

ConditionedSections(nf) ==
    Cardinality({k \in 1..3 : Sections(nf)[k].some /\ Sections(nf)[k].v.condition.some})

\* C4: a NumberFormat that parse_number_format returns has at most two of
\* its positive, negative and zero sections carrying a condition, and a
\* format string whose first three sections all start with a condition is an
\* error.
C4_AtMostTwoConditions ==
    pc = "compiled" =>
        /\ compiled.ok => ConditionedSections(compiled.nf) <= 2
        /\ ThreeConditions(input) => ~compiled.ok

C4_Witness ==
    /\ pc = "compiled"
    /\ ThreeConditions(input)
    /\ compiled.err = "Format string cannot have more than two conditional sections."

NumericOrDateKinds ==
    {"DigitOrZero", "DigitIfNeeded", "DigitOrSpace", "DecimalPoint",
     "YearTwoDigit", "YearFourDigit", "MonthNum", "MonthNumPadded", "MonthAbbr",
     "MonthFullName", "MonthLetter", "MonthOrMinute1", "MonthOrMinute2",
     "DayNum", "DayNumPadded", "WeekdayAbbr", "WeekdayFullName",
     "Hour12Or24", "Hour12Or24Padded", "MinuteNum", "MinuteNumPadded",
     "SecondNum", "SecondNumPadded", "AmPm", "AP",
     "ElapsedHours", "ElapsedMinutes", "ElapsedSeconds"}

\* The fourth segment holds a numeric or date lexeme, or starts with a
\* condition.
BadTextSegment(s) ==
    /\ NoQuoting(s)
    /\ Len(SegmentsOf(s, <<>>)) >= 4
    /\ LET seg == SegmentsOf(s, <<>>)[4]
           lexed == TokenLoop(seg, 1, <<>>).toks
       IN \/ StartsWithCondition(seg)
          \/ \E j \in 1..Len(lexed) : lexed[j].k \in NumericOrDateKinds

\* C5: the text section of a returned NumberFormat has no condition and no
\* numeric or date token, and a format string whose fourth section holds such
\* a token or starts with a condition is an error.
C5_TextSectionClean ==
    pc = "compiled" =>
        /\ (compiled.ok /\ compiled.nf.text_section.some) =>
              LET text == compiled.nf.text_section.v
              IN /\ ~text.condition.some
                 /\ \A j \in 1..Len(text.tokens) :
                        text.tokens[j].k \notin NumericOrDateKinds
        /\ BadTextSegment(input) => ~compiled.ok

C5_Witness ==
    /\ pc = "compiled"
    /\ BadTextSegment(input)
    /\ Len(SegmentsOf(input, <<>>)) = 4
    /\ compiled.err = "Text section (4th) contains a numeric or date symbol"

Ambiguous == {"MonthOrMinute1", "MonthOrMinute2"}

\* C6: after a successful parse_number_format no section holds a
\* MonthOrMinute1 or MonthOrMinute2 token, and the resolver replaces every
\* such token in place by a month or minute token of the same padding and
\* leaves every other token as it was.
C6_NoAmbiguousTokenLeft ==
    /\ (pc = "compiled" /\ compiled.ok) =>
          \A k \in 1..4 : Sections(compiled.nf)[k].some =>
              \A j \in 1..Len(Sections(compiled.nf)[k].v.tokens) :
                  Sections(compiled.nf)[k].v.tokens[j].k \notin Ambiguous
    /\ pc = "resolved" =>
          /\ Len(resolved) = Len(tokens)
          /\ \A j \in 1..Len(tokens) :
                CASE tokens[j].k = "MonthOrMinute1" ->
                        resolved[j] \in {Tok("MonthNum"), Tok("MinuteNum")}
                  [] tokens[j].k = "MonthOrMinute2" ->
                        resolved[j] \in {Tok("MonthNumPadded"), Tok("MinuteNumPadded")}
                  [] OTHER -> resolved[j] = tokens[j]

C6_Witness ==
    /\ pc = "resolved"
    /\ \E i, j, k \in 1..Len(tokens) :
          /\ tokens[i].k = "MonthOrMinute1" /\ resolved[i].k = "MonthNum"
          /\ tokens[j].k = "MonthOrMinute2" /\ resolved[j].k = "MinuteNumPadded"
          /\ tokens[k].k \notin Ambiguous

KindAt(toks, j) == IF j \in 1..Len(toks) THEN toks[j].k ELSE "none"
IsColonAt(toks, j) == j \in 1..Len(toks) /\ toks[j] = LiteralChar(":")
HourKinds == {"Hour12Or24", "Hour12Or24Padded"}
SecondKinds == {"SecondNum", "SecondNumPadded"}
MinuteKinds == {"MinuteNum", "MinuteNumPadded"}
MonthKinds == {"MonthNum", "MonthNumPadded"}

\* The four neighbour rules of the claim for the token at position j.
NeighbourSaysMinute(toks, j) ==
    \/ KindAt(toks, j - 1) \in HourKinds
    \/ IsColonAt(toks, j - 1)
    \/ KindAt(toks, j + 1) \in SecondKinds
    \/ IsColonAt(toks, j + 1) /\ KindAt(toks, j + 2) \in SecondKinds

\* The section holds AM/PM or A/P and no neighbour of position j is a day
\* token, a year token, '/' or '-'.
DateLike(toks, j) ==
    \/ KindAt(toks, j) \in {"DayNum", "DayNumPadded", "YearTwoDigit", "YearFourDigit"}
    \/ j \in 1..Len(toks) /\ toks[j] \in {LiteralChar("/"), LiteralChar("-")}

AmPmSaysMinute(toks, j) ==
    /\ \E n \in 1..Len(toks) : toks[n].k \in {"AmPm", "AP"}
    /\ ~DateLike(toks, j - 1)
    /\ ~DateLike(toks, j + 1)

\* C7 as stated: an m/mm token becomes a minute exactly when one of the four
\* neighbour rules holds, and a month otherwise.
C7_AsStated ==
    pc = "resolved" =>
        \A j \in 1..Len(tokens) : tokens[j].k \in Ambiguous =>
            IF NeighbourSaysMinute(tokens, j)
            THEN resolved[j].k \in MinuteKinds
            ELSE resolved[j].k \in MonthKinds

\* C7: an m/mm token becomes a minute exactly when one of the four neighbour
\* rules holds or the section holds an AM/PM or A/P token and neither
\* neighbour is a day token, a year token, '/' or '-'; it becomes a month
\* otherwise.
C7_MinuteRules ==
    pc = "resolved" =>
        \A j \in 1..Len(tokens) : tokens[j].k \in Ambiguous =>
            IF NeighbourSaysMinute(tokens, j) \/ AmPmSaysMinute(tokens, j)
            THEN resolved[j].k \in MinuteKinds
            ELSE resolved[j].k \in MonthKinds

C7_Witness ==
    /\ pc = "resolved"
    /\ \E j \in 1..Len(tokens) :
          /\ tokens[j].k \in Ambiguous
          /\ ~NeighbourSaysMinute(tokens, j)
          /\ AmPmSaysMinute(tokens, j)
          /\ resolved[j].k \in MinuteKinds
    /\ \E j \in 1..Len(tokens) :
          /\ tokens[j].k \in Ambiguous
          /\ resolved[j].k \in MonthKinds

\* The number of ';' characters of s from position i on that are outside
\* quoted text and are not the character taken by one of the `takers`
\* (a backslash inside or outside quotes, the other takers outside quotes).
RECURSIVE SeparatorCount(_, _, _, _)
SeparatorCount(s, i, in_quote, takers) ==
    IF i > Len(s) THEN 0
    ELSE IF in_quote
    THEN IF s[i] = "\\" THEN SeparatorCount(s, i + 2, TRUE, takers)
         ELSE SeparatorCount(s, i + 1, s[i] # "\"", takers)
    ELSE IF s[i] \in takers THEN SeparatorCount(s, i + 2, FALSE, takers)
    ELSE IF s[i] = "\"" THEN SeparatorCount(s, i + 1, TRUE, takers)
    ELSE (IF s[i] = ";" THEN 1 ELSE 0) + SeparatorCount(s, i + 1, FALSE, takers)

SectionCount(nf) == Cardinality({k \in 1..4 : Sections(nf)[k].some})

\* The sections present are the first SectionCount(nf) slots.
InOrder(nf) == \A k \in 1..4 : Sections(nf)[k].some <=> k <= SectionCount(nf)

PlainString(s) == \A i \in 1..Len(s) : s[i] \in {";", "0"}

\* A string of placeholders and separators compiles when it has at most
\* three separators and no placeholder in its text section, each segment
\* giving the tokens of its section.
PlainSplit(s, r) ==
    LET segs == SegmentsOf(s, <<>>)
    IN /\ r.ok <=> (Len(segs) <= 4 /\ (Len(segs) = 4 => segs[4] = <<>>))
       /\ r.ok => \A k \in 1..Len(segs) :
                     /\ Sections(r.nf)[k].some
                     /\ Sections(r.nf)[k].v.tokens = [j \in 1..Len(segs[k]) |-> Tok("DigitOrZero")]

SplitsOn(takers) ==
    LET k == SeparatorCount(input, 1, FALSE, takers)
    IN /\ compiled.ok => (k <= 3 /\ SectionCount(compiled.nf) = k + 1 /\ InOrder(compiled.nf))
       /\ k >= 4 => ~compiled.ok
       /\ PlainString(input) => PlainSplit(input, compiled)

MaxSignLexemes == 3
MaxPlaces == 9
MaxFracDigits == 3
MaxCommaLexemes == 4

SignLexemes ==
    {<<"0">>, <<".">>, <<"(">>, <<")">>, <<"-">>,
     <<"\"", "-", "\"">>, <<"\"", "(", "\"">>}

SignFormats == {Join(q, <<>>) : q \in SeqsUpTo(SignLexemes, MaxSignLexemes)}

SignValues ==
    {Dec(FALSE, 0, <<>>)} \cup
    {Dec(neg, m[1], m[2]) : neg \in BOOLEAN, m \in {<<5, <<>> >>, <<12, <<3>> >>}}

RoundFormats == {<<"0", ".">> \o [k \in 1..p |-> "0"] : p \in 1..MaxPlaces}

\* What follows the leading fraction digits: nothing, a little less than
\* 0.5 - 1e-9, a little more than it, and less than 1e-9.
RemainderTails ==
    {<<>>,
     <<4, 9, 9, 9, 9, 9, 9, 9>>,
     <<4, 9, 9, 9, 9, 9, 9, 9, 9, 9>>,
     <<0, 0, 0, 0, 0, 0, 0, 0, 0, 9>>}

RoundValues ==
    {Dec(FALSE, i, lead \o tail) :
        i \in {0, 9}, lead \in SeqsUpTo({4, 5, 9}, MaxFracDigits),
        tail \in RemainderTails}

CommaLexemes == {<<"0">>, <<",">>, <<".">>, <<"%">>, <<"E", "+">>}

CommaFormats == {Join(q, <<>>) : q \in SeqsUpTo(CommaLexemes, MaxCommaLexemes)}

ScaleValues ==
    {Dec(FALSE, m[1], m[2]) :
        m \in {<<0, <<>> >>, <<1500, <<>> >>, <<12345, <<6>> >>, <<1234567, <<>> >>}}

MaxGroupLexemes == 5

GroupLexemes == {<<"0">>, <<",">>, <<".">>}

GroupFormats == {Join(q, <<>>) : q \in SeqsUpTo(GroupLexemes, MaxGroupLexemes)}

GroupValues ==
    {Dec(FALSE, m[1], m[2]) : m \in {<<12, <<>> >>, <<1234, <<>> >>, <<1234567, <<8, 9>> >>}}

\* Sign literals and parentheses next to a quoted prefix or suffix.
AffixFormats ==
    {<<"(", "0", ")", "\"", "x", "\"">>,
     <<"\"", "x", "\"", "(", "0", ")">>,
     <<"(", "0", ".", "0", "0", ")">>,
     <<"(", "0", ")", " ">>,
     <<"\"", "x", "\"", "-", "0", ".", "0">>,
     <<"-", "0", "\"", "x", "\"">>,
     <<"\"", "-", "x", "\"", "0", ".", "0">>,
     <<"\"", "x", "-", "\"", "0", ".", "0">>,
     <<"\"", "x", "\"", "0", "\"", "-", "\"">>,
     <<"0", "-", "0">>}

InitRender ==
    /\ pc = "compile"
    /\ \/ input \in SignFormats /\ number \in SignValues
       \/ input \in AffixFormats /\ number \in SignValues
       \/ input \in RoundFormats /\ number \in RoundValues
       \/ input \in CommaFormats /\ number \in ScaleValues
       \/ input \in GroupFormats /\ number \in GroupValues
    /\ compiled = None /\ rendered = NotRendered
    /\ call = None /\ returned = None /\ LOCALE_CONTEXT = None
    /\ tokens = <<>> /\ resolved = <<>>
    /\ value = F(0) /\ format = None /\ selected = "none"

FormatStandardNumeric ==
    /\ pc = "compiled"
    /\ compiled.ok
    /\ LET section == compiled.nf.positive_section
       IN IF StandardNumericSection(section)
          THEN \E fallback \in {b \in BOOLEAN : b => IsNegativeDec(number)} :
                   rendered' = [kind |-> "standard", fallback |-> fallback,
                                out |-> StandardNumeric(number, section, fallback)]
          ELSE rendered' = [kind |-> "other", fallback |-> FALSE, out |-> <<>>]
    /\ pc' = "rendered"
    /\ UNCHANGED number
    /\ UNCHANGED parseVars
    /\ UNCHANGED selVars
    /\ UNCHANGED callVars

NextRender == Compile \/ FormatStandardNumeric

SpecRender == InitRender /\ [][NextRender]_vars

Rendered == pc = "rendered" /\ rendered.kind = "standard"

(***************************************************************************)
(* C3.  Fallback for a negative value.                                     *)
(***************************************************************************)
\* C3, as stated: when a negative value is rendered by the standard numeric
\* renderer with the fallback flag set, the output is '-' followed by the
\* output of the renderer for the magnitude.
C3_FallbackPrependsMinus ==
    (Rendered /\ rendered.fallback) =>
        rendered.out =
            <<"-">> \o StandardNumeric(AbsDec(number), compiled.nf.positive_section, FALSE)

(***************************************************************************)
(* C9.  Scaling commas.                                                    *)
(***************************************************************************)
PlainNumericChars == {"0", "#", "?", ".", ",", "%", "E", "+"}

\* The positions of the source that end a numeric token: a digit
\* placeholder, a decimal point, or the sign of an exponent marker.
NumericEnds(s) ==
    {k \in 1..Len(s) :
        \/ s[k] \in {"0", "#", "?", "."}
        \/ s[k] = "+" /\ k > 1 /\ s[k - 1] = "E"}

LastNumericEnd(s) ==
    IF NumericEnds(s) = {} THEN 0
    ELSE CHOOSE k \in NumericEnds(s) : \A j \in NumericEnds(s) : j <= k

\* The commas that follow the last numeric token, or lead the section.
CountedCommas(s) == RunLen(s, LastNumericEnd(s) + 1, {","})

WithoutCountedCommas(s) ==
    Slice(s, 1, LastNumericEnd(s)) \o
    Slice(s, LastNumericEnd(s) + CountedCommas(s) + 1, Len(s))

to_digits(n) == [k \in 1..Len(to_string(n)) |-> DigitVal(to_string(n)[k])]

RECURSIVE from_digits(_, _)
from_digits(digits, acc) ==
    IF digits = <<>> THEN acc ELSE from_digits(Tail(digits), acc * 10 + Head(digits))

\* v * 10^k, by moving the decimal point k places to the right.
ShiftLeft(v, k) ==
    Dec(v.neg, from_digits(to_digits(v.i) \o [j \in 1..k |-> DigitAt(v.f, j)], 0),
        Slice(v.f, k + 1, Len(v.f)))

\* v / 10^k, by moving the decimal point k places to the left.
ShiftRight(v, k) ==
    LET padded == [j \in 1..k |-> 0] \o to_digits(v.i)
        n == Len(padded)
    IN Dec(v.neg, from_digits(Slice(padded, 1, n - k), 0),
           Slice(padded, n - k + 1, n) \o v.f)

ScaledSource ==
    /\ pc \in {"compiled", "rendered"}
    /\ compiled.ok
    /\ ~compiled.nf.positive_section.has_datetime
    /\ \A k \in 1..Len(input) : input[k] \in PlainNumericChars

\* C9: a compiled non-date section has as num_scaling_commas the number of
\* commas that follow the last numeric token of the source (the leading
\* commas when there is none) and as tokens those of the source without these
\* commas; and what the standard numeric renderer emits for a value is what
\* it emits for the value (times 100 under a percent sign) divided by 1000
\* once per counted comma.
C9_ScalingCommas ==
    /\ ScaledSource =>
          LET section == compiled.nf.positive_section
          IN /\ section.num_scaling_commas = CountedCommas(input)
             /\ section.tokens = TokenLoop(WithoutCountedCommas(input), 1, <<>>).toks
    /\ Rendered =>
          LET section == compiled.nf.positive_section
              percent == \E j \in 1..Len(section.tokens) : section.tokens[j].k = "Percentage"
              magnitude == IF percent THEN ShiftLeft(AbsDec(number), 2)
                           ELSE AbsDec(number)
          IN rendered.out =
                 format_standard_numeric_core(
                     number, ShiftRight(magnitude, 3 * section.num_scaling_commas),
                     section.tokens, rendered.fallback)

C9_Witness ==
    /\ Rendered
    /\ input = <<"0", ".", "0", ",">>
    /\ number = Dec(FALSE, 12345, <<6>>)
    /\ compiled.nf.positive_section.num_scaling_commas = 1
    /\ rendered.out = <<"1", "2", ".", "3">>

(***************************************************************************)
(* C10.  Rounding to the fractional placeholders.                          *)
(***************************************************************************)
Places == Len(input) - 2

RoundedCase == pc = "rendered" /\ input \in RoundFormats /\ ~number.neg

\* The decimal digits of the magnitude cut after p fractional digits.
Truncated(v, p) == to_string(v.i) \o [k \in 1..p |-> DigitChars[DigitAt(v.f, k) + 1]]

\* A string of decimal digits, plus one.
RECURSIVE Increment(_)
Increment(ds) ==
    IF ds = <<>> THEN <<"1">>
    ELSE LET front == Slice(ds, 1, Len(ds) - 1)
             last == ds[Len(ds)]
         IN IF last = "9" THEN Increment(front) \o <<"0">>
            ELSE Append(front, DigitChars[DigitVal(last) + 2])

WithPoint(ds, p) == Slice(ds, 1, Len(ds) - p) \o <<".">> \o Slice(ds, Len(ds) - p + 1, Len(ds))

HalfOrMore(r) == DigitAt(r, 1) >= 5

NearlyHalfOrMore(r) ==
    \/ DigitAt(r, 1) >= 5
    \/ DigitAt(r, 1) = 4 /\ \A k \in 2..EpsilonDigits : DigitAt(r, k) = 9

BelowEpsilon(f) == \A k \in 1..EpsilonDigits : DigitAt(f, k) = 0

\* C10, as stated: the output is the magnitude with its first p fractional
\* digits, incremented in the last place when the remainder is at least one
\* half.
C10_AsStated ==
    RoundedCase =>
        rendered.out =
            WithPoint(IF HalfOrMore(Slice(number.f, Places + 1, Len(number.f)))
                      THEN Increment(Truncated(number, Places))
                      ELSE Truncated(number, Places), Places)

\* C10, amended: a fractional part below 1e-9 counts as zero; the output is
\* the magnitude with its first p fractional digits, incremented in the last
\* place, with the carry running leftwards into the integer part, when the
\* remainder is at least one half minus 1e-9.
C10_RoundsAtHalfMinusEpsilon ==
    RoundedCase =>
        LET v == IF BelowEpsilon(number.f) THEN [number EXCEPT !.f = <<>>] ELSE number
        IN rendered.out =
               WithPoint(IF NearlyHalfOrMore(Slice(v.f, Places + 1, Len(v.f)))
                         THEN Increment(Truncated(v, Places))
                         ELSE Truncated(v, Places), Places)

C10_Witness ==
    /\ RoundedCase
    /\ input = <<"0", ".", "0", "0">>
    /\ number = Dec(FALSE, 9, <<9, 9, 4, 9, 9, 9, 9, 9, 9, 9, 9, 9>>)
    /\ rendered.out = <<"1", "0", ".", "0", "0">>

(***************************************************************************)
(* C11.  Thousands grouping.                                               *)
(***************************************************************************)
\* The output up to its first decimal point, and what follows the point.
IntegerPartOf(out) ==
    IF FindChar(out, 1, ".") = 0 THEN out ELSE Slice(out, 1, FindChar(out, 1, ".") - 1)

FractionPartOf(out) ==
    IF FindChar(out, 1, ".") = 0 THEN <<>> ELSE Slice(out, FindChar(out, 1, ".") + 1, Len(out))

Without(chars, ch) == SelectSeq(chars, LAMBDA c : c # ch)

\* A separator before each digit that has a positive multiple of three digits
\* from itself to the end.
RECURSIVE GroupedByThree(_)
GroupedByThree(digits) ==
    IF digits = <<>> THEN <<>>
    ELSE IF Len(digits) > 3 /\ Len(digits) % 3 = 1
    THEN <<Head(digits), ",">> \o GroupedByThree(Tail(digits))
    ELSE <<Head(digits)>> \o GroupedByThree(Tail(digits))

GroupingSection(section) ==
    \E j \in 1..Len(section.tokens) :
        /\ section.tokens[j].k = "ThousandsSeparator"
        /\ FirstDecimalPoint(section.tokens) \in {0} \cup (j + 1)..Len(section.tokens)

GroupedCase == Rendered /\ input \in GroupFormats /\ ~number.neg

\* C11, as stated: when a thousands separator stands among the integer
\* placeholders, the emitted integer digits are separated in groups of three
\* counted from the right, with no separator at either end; the fractional
\* part holds no separator; a format without a comma emits none.
C11_GroupsOfThree ==
    GroupedCase =>
        /\ GroupingSection(compiled.nf.positive_section) =>
               IntegerPartOf(rendered.out) =
                   GroupedByThree(Without(IntegerPartOf(rendered.out), ","))
        /\ FindChar(FractionPartOf(rendered.out), 1, ",") = 0
        /\ FindChar(input, 1, ",") = 0 => FindChar(rendered.out, 1, ",") = 0

(***************************************************************************)
(* C19 and C20.  A negative value in a section of its own (the fallback    *)
(* flag is clear).                                                         *)
(***************************************************************************)
CountOf(chars, ch) == Len(SelectSeq(chars, LAMBDA c : c = ch))

\* The text of the literal and quoted tokens of a section.
RECURSIVE LiteralText(_)
LiteralText(toks) ==
    IF toks = <<>> THEN <<>>
    ELSE (IF Head(toks).k \in {"LiteralChar", "QuotedText"} THEN Head(toks).c ELSE <<>>)
             \o LiteralText(Tail(toks))

HasLiteral(toks, ch) == \E j \in 1..Len(toks) : toks[j] = LiteralChar(ch)

TrueNegativeCase == Rendered /\ IsNegativeDec(number) /\ ~rendered.fallback

\* C19, as stated: when a negative value is rendered by a section of its own
\* that holds both a literal '(' and a literal ')', the output holds exactly
\* as many '(' and as many ')' as the tokens of the section, wherever these
\* literals stand.
C19_ParenthesesNotAddedTwice ==
    LET toks == compiled.nf.positive_section.tokens
    IN (TrueNegativeCase /\ HasLiteral(toks, "(") /\ HasLiteral(toks, ")")) =>
           /\ CountOf(rendered.out, "(") = CountOf(LiteralText(toks), "(")
           /\ CountOf(rendered.out, ")") = CountOf(LiteralText(toks), ")")

\* The section has a sign literal of its own: an unquoted '-' or a quoted
\* text that begins with '-'.
HasOwnSignLiteral(toks) ==
    \E j \in 1..Len(toks) :
        \/ toks[j] = LiteralChar("-")
        \/ toks[j].k = "QuotedText" /\ StartsWith(toks[j].c, "-")

\* C20: when a negative value is rendered by a section of its own that
\* holds no parenthesis, the output is what the section emits for the
\* magnitude, preceded by one '-' exactly when the section has no sign
\* literal of its own; so the output holds as many '-' as the literal and
\* quoted tokens of the section, plus that one.
C20_MinusPrependedOnce ==
    LET section == compiled.nf.positive_section
        toks == section.tokens
        magnitude == StandardNumeric(AbsDec(number), section, FALSE)
        own == HasOwnSignLiteral(toks)
    IN (TrueNegativeCase /\ ~uses_parentheses(toks)) =>
           /\ rendered.out = (IF own THEN <<>> ELSE <<"-">>) \o magnitude
           /\ CountOf(rendered.out, "-") =
                  CountOf(LiteralText(toks), "-") + (IF own THEN 0 ELSE 1)

\* "x"-0.0 with -12.3 is x-12.3, and "x-"0.0 with -12.3 is -x-12.3.
C20_Witness ==
    /\ TrueNegativeCase
    /\ number = Dec(TRUE, 12, <<3>>)
    /\ \/ /\ input = <<"\"", "x", "\"", "-", "0", ".", "0">>
          /\ rendered.out = <<"x", "-", "1", "2", ".", "3">>
       \/ /\ input = <<"\"", "x", "-", "\"", "0", ".", "0">>
          /\ rendered.out = <<"-", "x", "-", "1", "2", ".", "3">>

(***************************************************************************)
(* Calls of format_number_as_fraction.  The value has zero or two integer  *)
(* digits and a fractional part that is zero, exact in small denominators  *)
(* (0.5, 0.25), periodic (0.333), or just below one (0.95, 0.97, 0.99);    *)
(* it is passed as its magnitude or with its sign.  The denominator is a   *)
(* run of zero to MaxDenominatorDigits placeholders or a fixed value.      *)
(***************************************************************************)
MaxDenominatorDigits == 2
MaxNumeratorTokens == 2

FractionTails ==
    {<<>>, <<1>>, <<5>>, <<2, 5>>, <<3, 3, 3>>, <<9, 5>>, <<9, 7>>, <<9, 9>>, <<0, 3>>}

FractionValues == {Dec(neg, i, f) : neg \in BOOLEAN, i \in {0, 2}, f \in FractionTails}

IntegerPartTokens ==
    {<<>>, <<Tok("DigitOrZero")>>,
     <<Tok("DigitIfNeeded"), LiteralChar(" ")>>,
     <<Tok("DigitOrZero"), LiteralChar(" ")>>}

NumeratorTokens ==
    {[j \in 1..m |-> Tok("DigitOrSpace")] : m \in 1..MaxNumeratorTokens}
        \cup {<<Tok("DigitIfNeeded")>>}

DenominatorTokens ==
    {[j \in 1..m |-> Tok("DigitOrSpace")] : m \in 0..MaxDenominatorDigits}

FixedDenominators == {0, 1, 2, 16}

FractionCalls ==
    {[original_value_for_sign |-> v,
      value |-> IF signed THEN v ELSE AbsDec(v),
      integer_part_tokens |-> it,
      numerator_tokens |-> nt,
      denominator_tokens |-> dn[1],
      fixed_denominator_value |-> dn[2],
      has_explicit_slash |-> ~dn[2].some,
      section_has_only_placeholders |-> only] :
        v \in FractionValues, signed \in BOOLEAN, it \in IntegerPartTokens,
        nt \in NumeratorTokens,
        dn \in ({<<dt, None>> : dt \in DenominatorTokens}
                    \cup {<<(<<>>), Some(d)>> : d \in FixedDenominators}),
        only \in BOOLEAN}

InitFraction ==
    /\ pc = "fraction"
    /\ call \in FractionCalls
    /\ returned = None /\ LOCALE_CONTEXT = None
    /\ input = <<>> /\ compiled = None /\ tokens = <<>> /\ resolved = <<>>
    /\ number = NoNumber /\ rendered = NotRendered
    /\ value = F(0) /\ format = None /\ selected = "none"

FormatNumberAsFraction ==
    /\ pc = "fraction"
    /\ returned' = format_number_as_fraction(call)
    /\ pc' = "fraction_done"
    /\ UNCHANGED <<call, LOCALE_CONTEXT>>
    /\ UNCHANGED parseVars
    /\ UNCHANGED selVars
    /\ UNCHANGED renderVars

NextFraction == FormatNumberAsFraction

SpecFraction == InitFraction /\ [][NextFraction]_vars

\* The digit run that ends just before position i of text, and the one
\* that starts just after it.
RECURSIVE DigitsBefore(_, _)
DigitsBefore(text, i) ==
    IF i > 1 /\ IsAsciiDigit(text[i - 1])
    THEN DigitsBefore(text, i - 1) \o <<DigitVal(text[i - 1])>>
    ELSE <<>>

RECURSIVE DigitsAfter(_, _)
DigitsAfter(text, i) ==
    IF i < Len(text) /\ IsAsciiDigit(text[i + 1])
    THEN <<DigitVal(text[i + 1])>> \o DigitsAfter(text, i + 1)
    ELSE <<>>

FractionReturned == pc = "fraction_done" /\ returned.some

\* The pair the denominator choice gave before the roll-over.
RawOfCall ==
    RawFraction(Fract(call.value), call.denominator_tokens, call.fixed_denominator_value)

\* C12: after the roll-over the numerator is below the denominator; a
\* numerator that reached the denominator became 0 and the integer part
\* grew by one; a rendered fraction shows a numerator below its denominator.
C12_NumeratorBelowDenominator ==
    FractionReturned =>
        /\ 0 <= returned.num /\ returned.num < returned.den
        /\ RawOfCall.v[1] = RawOfCall.v[2] =>
               /\ returned.num = 0
               /\ AbsInt(returned.int) = call.value.i + 1
        /\ LET slash == FindChar(returned.out, 1, "/")
           IN slash > 0 =>
                  DigitsValue(DigitsBefore(returned.out, slash), 0)
                      < DigitsValue(DigitsAfter(returned.out, slash), 0)

\* A numerator that reached its denominator in the bounded search, rolled
\* over into the integer part.
C12_Witness ==
    /\ FractionReturned
    /\ ~call.fixed_denominator_value.some
    /\ RawOfCall.v[1] = RawOfCall.v[2]
    /\ call.value.i = 2 /\ AbsInt(returned.int) = 3 /\ returned.num = 0

(***************************************************************************)
(* Calls of format_datetime, one after the other on one thread.  The       *)
(* first call is drawn from three families: every serial day up to         *)
(* MaxSerial and a few later ones, at midnight and at noon, under          *)
(* "yyyy-mm-dd" and "ddd d mmm yy"; a day of 2024 at seven times of day    *)
(* under every string of up to MaxHourLexemes lexemes over h, hh, AM/PM,   *)
(* a/p and a space; and sections that start with a                        *)
(* CurrencySymbolLocalePrefixed token, as the compiler builds it and as a  *)
(* caller may build it, with a negative, a special and an ordinary value.  *)
(* The calls that follow are drawn from the third family.                  *)
(***************************************************************************)
MaxSerial == 62
MaxHourLexemes == 3

CompiledTokens(s) == parse_number_format(s).nf.positive_section.tokens

DateSections ==
    {CompiledTokens(s) : s \in {<<"y","y","y","y","-","m","m","-","d","d">>,
                                <<"d","d","d"," ","d"," ","m","m","m"," ","y","y">>}}

SerialValues ==
    {Dec(FALSE, s, f) : s \in (0..MaxSerial) \cup {366, 425, 45292}, f \in {<<>>, <<5>>}}

HourLexemes == {<<"h">>, <<"h", "h">>, <<" ">>, <<"A","M","/","P","M">>, <<"a","/","p">>}

HourSections ==
    {CompiledTokens(Join(q, <<>>)) : q \in SeqsUpTo(HourLexemes, MaxHourLexemes) \ {<<>>}}

HourTails ==
    {<<>>, <<2, 5>>, <<4, 9, 9, 9, 9>>, <<4, 9, 9, 9, 9, 9>>, <<5>>, <<7, 5>>,
     <<9, 9, 9, 9, 9, 9>>}

HourValues == {Dec(FALSE, 45292, f) : f \in HourTails}

LocaleStrings ==
    {<<"-","1","1","1">>, <<"-","4","0","9">>, <<"U","S","-","1","1","1">>,
     <<"U","S","-","4","0","9">>, <<"U","S","-">>, <<"U","S">>,
     <<"U","S",":","[","$","-","4","0","9","]">>}

LocaleSections ==
    {<<TokC("CurrencySymbolLocalePrefixed", x), Tok("YearFourDigit")>> : x \in LocaleStrings}
        \cup {<<Tok("YearFourDigit")>>, <<Tok("DigitIfNeeded")>>}

LocaleValues == {Dec(TRUE, 1, <<>>), Dec(FALSE, 60, <<>>), Dec(FALSE, 45292, <<5>>)}

\* Sections with a clock to the second, with and without fractional-second
\* placeholders, and times of day on both sides of a half second, at a
\* half second exactly, and within half a second of midnight, on the
\* first and on the last day of 2024.
ClockSection == CompiledTokens(<<"y","y","y","y","-","m","m","-","d","d"," ",
                                 "h","h",":","m","m",":","s","s">>)

MeridiemSection == CompiledTokens(<<"y","y","y","y","-","m","m","-","d","d"," ",
                                    "h",":","m","m",":","s","s"," ","A","M","/","P","M">>)

MillisSection == CompiledTokens(<<"h","h",":","m","m",":","s","s",".","0","0","0">>)

TenthsSection == CompiledTokens(<<"y","y","y","y","-","m","m","-","d","d"," ",
                                  "h","h",":","m","m",":","s","s",".","0">>)

TimeSections == {ClockSection, MeridiemSection, MillisSection, TenthsSection}

TimeTails ==
    {<<>>, <<5>>, <<2, 5>>, <<4, 9, 9, 9>>, <<0, 0, 0, 0, 0, 5>>, <<0, 0, 0, 0, 0, 6>>,
     <<0, 0, 3, 9, 0, 6, 2, 5>>, <<4, 9, 6, 0, 9, 3, 7, 5>>, <<9, 9, 6, 0, 9, 3, 7, 5>>,
     <<9, 9, 9, 9, 9, 4>>, <<9, 9, 9, 9, 9, 5>>, <<9, 9, 9, 9, 9, 9>>}

TimeValues == {Dec(FALSE, s, f) : s \in {45292, 45657}, f \in TimeTails}

DatetimeCall(v, toks) == [value |-> v, tokens |-> toks]

FollowUpCalls == {DatetimeCall(v, toks) : v \in LocaleValues, toks \in LocaleSections}

DatetimeCalls ==
    {DatetimeCall(v, toks) : v \in SerialValues, toks \in DateSections}
        \cup {DatetimeCall(v, toks) : v \in HourValues, toks \in HourSections}
        \cup {DatetimeCall(v, toks) : v \in TimeValues, toks \in TimeSections}
        \cup FollowUpCalls

InitDatetime ==
    /\ pc = "datetime"
    /\ call \in DatetimeCalls
    /\ returned = None /\ LOCALE_CONTEXT = None
    /\ input = <<>> /\ compiled = None /\ tokens = <<>> /\ resolved = <<>>
    /\ number = NoNumber /\ rendered = NotRendered
    /\ value = F(0) /\ format = None /\ selected = "none"

FormatDatetime ==
    /\ pc = "datetime"
    /\ LET r == format_datetime(call.value, call.tokens, LOCALE_CONTEXT)
       IN /\ returned' = [out |-> r.out, path |-> r.path]
          /\ LOCALE_CONTEXT' = r.ctx
    /\ pc' = "datetime_done"
    /\ UNCHANGED call
    /\ UNCHANGED <<parseVars, selVars, renderVars>>

\* The caller's next call on the same thread.
NextCall ==
    /\ pc = "datetime_done"
    /\ call' \in FollowUpCalls
    /\ returned' = None
    /\ pc' = "datetime"
    /\ UNCHANGED LOCALE_CONTEXT
    /\ UNCHANGED <<parseVars, selVars, renderVars>>

NextDatetime == FormatDatetime \/ NextCall

SpecDatetime == InitDatetime /\ [][NextDatetime]_vars

DatetimeDone == pc = "datetime_done"

IsoSection == CompiledTokens(<<"y","y","y","y","-","m","m","-","d","d">>)

IsoText(d) == to_string(d.year) \o <<"-">> \o Pad2(d.month) \o <<"-">> \o Pad2(d.day)

\* The serial of the call in progress: the day count of its value.
Serial == call.value.i

SerialCase == DatetimeDone /\ call.tokens = IsoSection /\ ~IsNegativeDec(call.value)

\* C13: under "yyyy-mm-dd" serial 60 gives 1900-02-29, a serial s of 1..59
\* gives 1900-01-01 plus s-1 days, a serial above 60 gives 1900-01-01 plus
\* s-2 days and serial 0 gives 1899-12-31.
C13_SerialToDate ==
    SerialCase =>
        /\ Serial = 60 => returned.out = <<"1","9","0","0","-","0","2","-","2","9">>
        /\ Serial \in 1..59 => returned.out = IsoText(DateOf(Serial - 1))
        /\ Serial > 60 => returned.out = IsoText(DateOf(Serial - 2))
        /\ Serial = 0 => returned.out = <<"1","8","9","9","-","1","2","-","3","1">>

\* C13 for values without a time of day.
C13_WholeSerialToDate == AllZero(call.value.f) => C13_SerialToDate

\* C16: between calls LOCALE_CONTEXT is None, and what a call returns is
\* what it returns on a thread that made no call before.
C16_NoContextLeft ==
    /\ [](pc \in {"datetime", "datetime_done"} => ~LOCALE_CONTEXT.some)
    /\ [][pc' = "datetime_done" =>
              returned'.out = format_datetime(call.value, call.tokens, None).out]_vars

\* A call that set the context to 111 and returned the raw value.
C16_Witness ==
    /\ DatetimeDone
    /\ LocaleContextSet(call.tokens, None).some
    /\ returned.path = "111"
    /\ ~LOCALE_CONTEXT.some

HourKindsShown == {"Hour12Or24", "Hour12Or24Padded"}

HourCase ==
    /\ DatetimeDone
    /\ call.value.i = 45292
    /\ \A j \in 1..Len(call.tokens) :
           call.tokens[j].k \in HourKindsShown \cup {"AmPm", "AP", "LiteralChar"}
    /\ \E j \in 1..Len(call.tokens) : call.tokens[j].k \in HourKindsShown

\* The 24-hour value of the call: the hour of its time of day, taken to
\* the nearest second.
Hour24 ==
    LET t == SecondsOfDay(call.value.f)
        s == IF 2 * t.r >= t.q THEN t.secs + 1 ELSE t.secs
    IN (s \div 3600) % 24

TwelveHour(h) == IF h = 0 \/ h = 12 THEN 12 ELSE h % 12

HasAmPmToken == \E j \in 1..Len(call.tokens) : call.tokens[j].k \in {"AmPm", "AP"}

LastHourToken ==
    CHOOSE j \in 1..Len(call.tokens) :
        /\ call.tokens[j].k \in HourKindsShown
        /\ \A n \in (j + 1)..Len(call.tokens) : call.tokens[n].k \notin HourKindsShown

Marker(t) ==
    LET upper == t.c = <<"UpperCase">>
        am == Hour24 < 12
    IN IF t.k = "AmPm"
       THEN (IF upper THEN (IF am THEN <<"A", "M">> ELSE <<"P", "M">>)
             ELSE (IF am THEN <<"a", "m">> ELSE <<"p", "m">>))
       ELSE (IF upper THEN (IF am THEN <<"A">> ELSE <<"P">>)
             ELSE (IF am THEN <<"a">> ELSE <<"p">>))

ShownFor(j) ==
    LET t == call.tokens[j]
        shown == IF HasAmPmToken /\ j = LastHourToken THEN TwelveHour(Hour24) ELSE Hour24
    IN IF t.k = "Hour12Or24" THEN to_string(shown)
       ELSE IF t.k = "Hour12Or24Padded" THEN Pad2(shown)
       ELSE IF t.k = "LiteralChar" THEN t.c
       ELSE Marker(t)

\* C17: with an AM/PM or A/P token the last hour token shows the 12-hour
\* value and every earlier one the 24-hour value; without one every hour
\* token shows the 24-hour value; the marker is AM iff the hour is below 12.
C17_LastHourOnTwelveHourClock ==
    HourCase =>
        returned.out = Concat([j \in 1..Len(call.tokens) |-> ShownFor(j)])

\* Two hour tokens around an AM/PM token in the afternoon: 18, PM, then 6.
C17_Witness ==
    /\ HourCase /\ HasAmPmToken /\ Hour24 = 18
    /\ \E j \in 1..Len(call.tokens) :
           j < LastHourToken /\ call.tokens[j].k \in HourKindsShown
    /\ returned.out = <<"1", "8", "P", "M", "6">>

(***************************************************************************)
(* Calls of format_duration.  The sections are the compiled strings of up  *)
(* to MaxDurationLexemes lexemes over [h], [m], [s], mm, ss, ":" and ".00" *)
(* that hold an elapsed token, "[h]:mm:ss", and two vectors that keep an   *)
(* ambiguous m token.  The values are zero or one day plus nothing, half a day,      *)
(* 1:00:28.8, 13:02:14.0352, 0:01:00.48 or 23:59:59.9136, of either sign.  *)
(***************************************************************************)
MaxDurationLexemes == 3

DurationLexemes ==
    {<<"[","h","]">>, <<"[","m","]">>, <<"[","s","]">>, <<"m","m">>, <<"s","s">>,
     <<":">>, <<".","0","0">>}

DurationSections ==
    {toks \in {CompiledTokens(Join(q, <<>>)) :
                  q \in SeqsUpTo(DurationLexemes, MaxDurationLexemes) \ {<<>>}} :
        section_is_duration(toks)}
    \cup {CompiledTokens(<<"[","h","]",":","m","m",":","s","s">>),
          <<Tok("ElapsedHours"), LiteralChar(" "), Tok("MonthOrMinute1")>>,
          <<Tok("MonthOrMinute2"), LiteralChar(" "), Tok("ElapsedSeconds")>>}

DurationTails ==
    {<<>>, <<5>>, <<0, 4, 2>>, <<5, 4, 3, 2, 1, 8>>, <<0, 0, 0, 7>>, <<9, 9, 9, 9, 9, 9>>}

DurationValues == {Dec(neg, i, f) : neg \in BOOLEAN, i \in {0, 1}, f \in DurationTails}

InitDuration ==
    /\ pc = "duration"
    /\ call \in {DatetimeCall(v, toks) : v \in DurationValues, toks \in DurationSections}
    /\ returned = None /\ LOCALE_CONTEXT = None
    /\ input = <<>> /\ compiled = None /\ tokens = <<>> /\ resolved = <<>>
    /\ number = NoNumber /\ rendered = NotRendered
    /\ value = F(0) /\ format = None /\ selected = "none"

FormatDuration ==
    /\ pc = "duration"
    /\ returned' = [out |-> format_duration(call.value, call.tokens)]
    /\ pc' = "duration_done"
    /\ UNCHANGED <<call, LOCALE_CONTEXT>>
    /\ UNCHANGED <<parseVars, selVars, renderVars>>

NextDuration == FormatDuration

SpecDuration == InitDuration /\ [][NextDuration]_vars

WholeSecondKinds ==
    {"ElapsedHours", "ElapsedMinutes", "ElapsedSeconds", "MinuteNum", "MinuteNumPadded",
     "MonthOrMinute1", "MonthOrMinute2", "SecondNum", "SecondNumPadded", "LiteralChar"}

\* A rendering of a non-negative value under tokens that show whole seconds.
DurationCase ==
    /\ pc = "duration_done"
    /\ ~IsNegativeDec(call.value)
    /\ \A j \in 1..Len(call.tokens) : call.tokens[j].k \in WholeSecondKinds

\* T: the value in seconds, rounded to the nearest whole second.
RoundedTotal ==
    LET t == TotalSeconds(call.value)
    IN IF 2 * t.r >= t.q THEN t.secs + 1 ELSE t.secs

DurationShownFor(t) ==
    CASE t.k = "ElapsedHours" -> to_string(RoundedTotal \div 3600)
      [] t.k = "ElapsedMinutes" -> to_string(RoundedTotal \div 60)
      [] t.k = "ElapsedSeconds" -> to_string(RoundedTotal)
      [] t.k \in {"MinuteNum", "MonthOrMinute1"} -> to_string((RoundedTotal \div 60) % 60)
      [] t.k \in {"MinuteNumPadded", "MonthOrMinute2"} -> Pad2((RoundedTotal \div 60) % 60)
      [] t.k = "SecondNum" -> to_string(RoundedTotal % 60)
      [] t.k = "SecondNumPadded" -> Pad2(RoundedTotal % 60)
      [] OTHER -> t.c

\* C14: the fields add up to the rounded total T with minutes and seconds
\* below 60; [h], [m], [s] show T div 3600, T div 60 and T, and the plain
\* minute and second tokens show the bounded fields.
C14_DurationFields ==
    DurationCase =>
        LET c == calculate_time_components(
                     round_seconds(TotalSeconds(call.value),
                                   count_fractional_second_digits(call.tokens)))
        IN /\ c.hours * 3600 + c.minutes * 60 + c.seconds = RoundedTotal
           /\ c.minutes \in 0..59 /\ c.seconds \in 0..59
           /\ returned.out =
                  Concat([j \in 1..Len(call.tokens) |-> DurationShownFor(call.tokens[j])])

\* 1.543218 days under [h]:mm:ss shown as 37:02:14.
C14_Witness ==
    /\ DurationCase
    /\ RoundedTotal = 133334
    /\ returned.out = <<"3", "7", ":", "0", "2", ":", "1", "4">>

\* C15: a negative value gives the error string with the value in it and
\* nothing of the section.
C15_NegativeDurationError ==
    (pc = "duration_done" /\ IsNegativeDec(call.value)) =>
        returned.out = NegativeDurationError(call.value)

\* -1.5 days under a section with tokens to show.
C15_Witness ==
    /\ pc = "duration_done"
    /\ call.value = Dec(TRUE, 1, <<5>>)
    /\ Len(call.tokens) = 3
    /\ returned.out = NegativeDurationError(Dec(TRUE, 1, <<5>>))

(***************************************************************************)
(* Calls of format_exponential on the compiled strings made of a mantissa  *)
(* pattern with zero to MaxMantissaPlaces fractional placeholders, E+ or   *)
(* E-, and one or two exponent placeholders.  The magnitudes are zero,     *)
(* integers, fractions below one, ties, and mantissas that round to ten.   *)
(***************************************************************************)
MaxMantissaPlaces == 3

MantissaPatterns ==
    {<<"0">>, <<"#", ".", "0", "#">>}
        \cup {<<"0", ".">> \o [j \in 1..p |-> "0"] : p \in 1..MaxMantissaPlaces}

ExponentialFormats ==
    {mp \o e \o z : mp \in MantissaPatterns,
                     e \in {<<"E", "+">>, <<"E", "-">>},
                     z \in {<<"0">>, <<"0", "0">>}}

ExponentialSections == {CompiledTokens(s) : s \in ExponentialFormats}

ExponentialMagnitudes ==
    {<<0, <<>> >>, <<1, <<>> >>, <<1000, <<>> >>, <<999999, <<>> >>,
     <<12345, <<6, 7>> >>, <<0, <<0, 0, 0, 1, 2, 3, 4, 5>> >>, <<9, <<9, 9, 6>> >>,
     <<99, <<9, 5>> >>, <<0, <<5>> >>, <<0, <<0, 9, 9, 9, 9>> >>, <<2, <<5>> >>,
     <<1, <<2, 4, 9, 9>> >>, <<123456789, <<>> >>}

ExponentialValues ==
    {Dec(neg, m[1], m[2]) : neg \in BOOLEAN, m \in ExponentialMagnitudes}

ExpTokenIdx(toks) == CHOOSE j \in 1..Len(toks) :
                         /\ toks[j].k = "Exponential"
                         /\ \A n \in 1..(j - 1) : toks[n].k # "Exponential"

InitExponential ==
    /\ pc = "exponential"
    /\ call \in {DatetimeCall(v, toks) : v \in ExponentialValues, toks \in ExponentialSections}
    /\ returned = None /\ LOCALE_CONTEXT = None
    /\ input = <<>> /\ compiled = None /\ tokens = <<>> /\ resolved = <<>>
    /\ number = NoNumber /\ rendered = NotRendered
    /\ value = F(0) /\ format = None /\ selected = "none"

FormatExponential ==
    /\ pc = "exponential"
    /\ returned' = [out |-> format_exponential(call.value, call.tokens,
                                               ExpTokenIdx(call.tokens))]
    /\ pc' = "exponential_done"
    /\ UNCHANGED <<call, LOCALE_CONTEXT>>
    /\ UNCHANGED <<parseVars, selVars, renderVars>>

NextExponential == FormatExponential

SpecExponential == InitExponential /\ [][NextExponential]_vars

ExponentialDone == pc = "exponential_done"

\* The placeholders between the decimal point and the E token.
PlacesBeforeE ==
    LET e == ExpTokenIdx(call.tokens)
        dp == {j \in 1..(e - 1) : call.tokens[j].k = "DecimalPoint"}
    IN Cardinality({j \in 1..(e - 1) :
                       /\ call.tokens[j].k \in DigitPlaceholders
                       /\ \E d \in dp : d < j})

\* The parts of the returned text: sign, mantissa, exponent sign, exponent.
ShownParts ==
    LET out == returned.out
        e == FindChar(out, 1, "E")
        neg == StartsWith(out, "-")
        m == Slice(out, IF neg THEN 2 ELSE 1, e - 1)
        signed == e < Len(out) /\ out[e + 1] \in {"+", "-"}
        x == Slice(out, IF signed THEN e + 2 ELSE e + 1, Len(out))
    IN [neg |-> neg, mantissa |-> m,
        exp_sign |-> IF signed THEN out[e + 1] ELSE "",
        exp_digits |-> x]

\* The mantissa text is one digit, then a point and p digits when p > 0.
WellFormedMantissa(m, p) ==
    /\ Len(m) = (IF p = 0 THEN 1 ELSE p + 2)
    /\ \A j \in 1..Len(m) : IF j = 2 THEN m[j] = "." ELSE IsAsciiDigit(m[j])

MantissaNumber(m) ==
    DigitsValue([j \in 1..Len(Without(m, ".")) |-> DigitVal(Without(m, ".")[j])], 0)

\* N: the magnitude of the call's value in units of 10^-Len(f).
Magnitude == DigitsValue(AllDigits(call.value), 0)

\* M * 10^(E - p) is the magnitude rounded half up to a multiple of
\* 10^(E - p): with s = E - p + Len(f), N lies within half of 10^s of
\* M * 10^s when s > 0, and N * 10^-s = M otherwise.
RoundsTo(M, E, p) ==
    LET s == E - p + Len(call.value.f)
    IN IF s > 0
       THEN /\ 2 * (M * Pow10(s)) - Pow10(s) <= 2 * Magnitude
            /\ 2 * Magnitude < 2 * (M * Pow10(s)) + Pow10(s)
       ELSE Magnitude * Pow10(0 - s) = M

\* C18: a nonzero value is shown as a mantissa of one integer digit 1..9
\* and p fractional digits and an exponent E such that mantissa * 10^E is
\* the magnitude rounded to p + 1 significant digits; the exponent has at
\* least two digits, '-' when negative, else '+' under E+ and nothing
\* under E-; zero is shown with mantissa 0 and exponent 00.
C18_MantissaAndExponent ==
    ExponentialDone =>
        LET p == PlacesBeforeE
            s == ShownParts
            M == MantissaNumber(s.mantissa)
            X == DigitsValue([j \in 1..Len(s.exp_digits) |-> DigitVal(s.exp_digits[j])], 0)
            E == IF s.exp_sign = "-" THEN 0 - X ELSE X
            plus == call.tokens[ExpTokenIdx(call.tokens)].c = <<"Plus">>
        IN /\ WellFormedMantissa(s.mantissa, p)
           /\ Len(s.exp_digits) >= 2
           /\ \A j \in 1..Len(s.exp_digits) : IsAsciiDigit(s.exp_digits[j])
           /\ s.exp_sign = (IF E < 0 THEN "-" ELSE IF plus THEN "+" ELSE "")
           /\ s.neg = IsNegativeDec(call.value)
           /\ IF IsZeroDec(call.value)
              THEN M = 0 /\ s.exp_digits = <<"0", "0">>
              ELSE /\ Pow10(p) <= M /\ M < Pow10(p + 1)
                   /\ RoundsTo(M, E, p)

\* 9.996 under two fractional placeholders and E+: 1.00E+01.
C18_Witness ==
    /\ ExponentialDone
    /\ call.value = Dec(FALSE, 9, <<9, 9, 6>>)
    /\ PlacesBeforeE = 2
    /\ returned.out = <<"1", ".", "0", "0", "E", "+", "0", "1">>

(***************************************************************************)
(* Calls of decimal_to_fraction on the decimals 0.f of up to               *)
(* MaxDecimalDigits digits and a few longer ones, with one to              *)
(* MaxDenominatorPlaceholders denominator placeholders.                    *)
(***************************************************************************)
MaxDecimalDigits == 2
MaxDenominatorPlaceholders == 3

DecimalTails ==
    {<<>>} \cup UNION {[1..n -> 0..9] : n \in 1..MaxDecimalDigits}
        \cup {<<1, 2, 5>>, <<3, 3, 3>>, <<6, 2, 5>>, <<3, 3, 3, 3, 3, 3, 3>>,
              <<1, 4, 1, 5, 9, 2, 6, 5>>, <<0, 0, 0, 1>>, <<9, 9, 9, 9>>}

ConvergentCalls ==
    {[decimal |-> Dec(FALSE, 0, f), max_denominator_digits |-> d] :
        f \in DecimalTails, d \in 1..MaxDenominatorPlaceholders}

InitConvergent ==
    /\ pc = "convergent"
    /\ call \in ConvergentCalls
    /\ returned = None /\ LOCALE_CONTEXT = None
    /\ input = <<>> /\ compiled = None /\ tokens = <<>> /\ resolved = <<>>
    /\ number = NoNumber /\ rendered = NotRendered
    /\ value = F(0) /\ format = None /\ selected = "none"

DecimalToFraction ==
    /\ pc = "convergent"
    /\ returned' = decimal_to_fraction(Fract(call.decimal).f64, call.max_denominator_digits)
    /\ pc' = "convergent_done"
    /\ UNCHANGED <<call, LOCALE_CONTEXT>>
    /\ UNCHANGED <<parseVars, selVars, renderVars>>

NextConvergent == DecimalToFraction

SpecConvergent == InitConvergent /\ [][NextConvergent]_vars

ConvergentDone == pc = "convergent_done"

\* The convergent of the rational ap/aq with the largest denominator not
\* above max_denominator, in exact arithmetic.
RECURSIVE BestConvergent(_, _, _, _)
BestConvergent(ap, aq, c, max_denominator) ==
    LET ai == ap \div aq
        h_next == ai * c.h_curr + c.h_prev
        k_next == ai * c.k_curr + c.k_prev
    IN IF k_next > max_denominator THEN <<c.h_curr, c.k_curr>>
       ELSE IF ap % aq = 0 THEN <<h_next, k_next>>
       ELSE BestConvergent(aq, ap % aq,
                           [h_prev |-> c.h_curr, k_prev |-> c.k_curr,
                            h_curr |-> h_next, k_curr |-> k_next],
                           max_denominator)

ConvergentOfCall ==
    BestConvergent(Fract(call.decimal).p, Fract(call.decimal).q,
                   [h_prev |-> 0, k_prev |-> 1, h_curr |-> 1, k_curr |-> 0],
                   Pow10(call.max_denominator_digits) - 1)

\* C21, as stated: for a decimal in (0,1) and d >= 1 placeholders the result
\* is the convergent of the decimal whose denominator is the largest among
\* its convergents not above 10^d - 1, and for decimal 0 it is 0/1.
C21_LargestConvergent ==
    ConvergentDone =>
        /\ returned.some
        /\ returned.v = (IF AllZero(call.decimal.f) THEN <<0, 1>> ELSE ConvergentOfCall)

\* C22: the call returns Some((h, k)) with k >= 1 and 0 <= h <= k; the
\* denominators of the iterations strictly increase from the third
\* iteration on; and with up to three placeholders the loop makes at most
\* 20 iterations.
C22_TerminatesWithFraction ==
    ConvergentDone =>
        /\ returned.some
        /\ returned.v[2] >= 1
        /\ 0 <= returned.v[1] /\ returned.v[1] <= returned.v[2]
        /\ \A j \in 3..Len(returned.denominators) :
               returned.denominators[j] > returned.denominators[j - 1]
        /\ call.max_denominator_digits <= 3 => returned.iterations <= 20

\* 0.61 with two placeholders leaves the loop in its ninth iteration, by a
\* denominator above 99.
C22_Witness ==
    /\ ConvergentDone
    /\ call.decimal.f = <<6, 1>> /\ call.max_denominator_digits = 2
    /\ returned.iterations = 9
    /\ Len(returned.denominators) >= 3

(***************************************************************************)
(* Calls of parse_one_section.  The input is a string of up to             *)
(* MaxFractionChars characters of fraction formats, a string of up to      *)
(* MaxYearChars year letters and hyphens, or up to MaxSectionLexemes       *)
(* lexemes that mix commas with numeric, date/time and text tokens.        *)
(***************************************************************************)
MaxFractionChars == 4
MaxYearChars == 5
MaxSectionLexemes == 4

FractionChars == {"#", "?", "/", "1", "6", "\\", " "}

FractionStrings == SeqsUpTo(FractionChars, MaxFractionChars)

YearStrings == SeqsUpTo({"y", "Y", "-"}, MaxYearChars)

SectionLexemes ==
    {<<",">>, <<"0">>, <<".">>, <<"h">>, <<"m">>, <<"[", "h", "]">>, <<"@">>, <<"#">>}

SectionStrings == {Join(q, <<>>) : q \in SeqsUpTo(SectionLexemes, MaxSectionLexemes)}

SectionCalls ==
    {[input |-> s, section_index |-> n] :
        s \in FractionStrings \cup YearStrings \cup SectionStrings, n \in 0..3}

InitSection ==
    /\ pc = "section"
    /\ call \in SectionCalls
    /\ returned = None /\ LOCALE_CONTEXT = None
    /\ input = <<>> /\ compiled = None /\ tokens = <<>> /\ resolved = <<>>
    /\ number = NoNumber /\ rendered = NotRendered
    /\ value = F(0) /\ format = None /\ selected = "none"

ParseOneSection ==
    /\ pc = "section"
    /\ returned' = parse_one_section(call.input, 1, call.section_index)
    /\ pc' = "section_done"
    /\ UNCHANGED <<call, LOCALE_CONTEXT>>
    /\ UNCHANGED <<parseVars, selVars, renderVars>>

NextSectionCall == ParseOneSection

SpecSection == InitSection /\ [][NextSectionCall]_vars

SectionDone == pc = "section_done"

(***************************************************************************)
(* C23.  A '/' followed by a run of digits.                                *)
(***************************************************************************)
\* The input is placeholders and spaces, a '/', and a run of digits, as
\* "#/16" is.
WrittenFixedDenominator ==
    LET s == call.input
        slash == FindChar(s, 1, "/")
    IN /\ slash > 0 /\ slash < Len(s)
       /\ \A j \in 1..(slash - 1) : s[j] \in {"#", "?", " "}
       /\ \A j \in (slash + 1)..Len(s) : s[j] \in {"1", "6"}

\* C23, as stated: a section in which '/' is directly followed by a run of
\* digits compiles, with fixed_denominator the number the run forms,
\* has_fraction set, and as tokens those of what stands before the '/'.
C23_FixedDenominator ==
    (SectionDone /\ WrittenFixedDenominator) =>
        LET s == call.input
            slash == FindChar(s, 1, "/")
            before == parse_one_section(Slice(s, 1, slash - 1), 1, call.section_index)
        IN /\ returned.ok
           /\ returned.sec.fixed_denominator.some
           /\ returned.sec.fixed_denominator.v =
                  DigitsToInt(Slice(s, slash + 1, Len(s)), 0)
           /\ returned.sec.has_fraction
           /\ returned.sec.tokens = before.sec.tokens

(***************************************************************************)
(* C24.  Runs of the year letter.                                          *)
(***************************************************************************)
\* The tokens of a string of year letters and hyphens when a maximal run of
\* n letters gives one token, the four-digit year for n >= threshold.
RECURSIVE YearRunTokens(_, _, _)
YearRunTokens(s, i, threshold) ==
    IF i > Len(s) THEN <<>>
    ELSE IF s[i] \in {"y", "Y"}
    THEN LET n == RunLen(s, i, {"y", "Y"})
         IN <<Tok(IF n >= threshold THEN "YearFourDigit" ELSE "YearTwoDigit")>>
                \o YearRunTokens(s, i + n, threshold)
    ELSE <<LiteralChar(s[i])>> \o YearRunTokens(s, i + 1, threshold)

YearCase == SectionDone /\ call.input \in YearStrings

\* C24, as stated: a maximal run of n year letters gives one token, the
\* four-digit year when n >= 4 and the two-digit year when n <= 3.
C24_AsStated ==
    YearCase => returned.ok /\ returned.sec.tokens = YearRunTokens(call.input, 1, 4)

\* C24, amended: a maximal run of n year letters gives one token, the
\* four-digit year when n >= 3 and the two-digit year when n is 1 or 2.
C24_YearRuns ==
    YearCase => returned.ok /\ returned.sec.tokens = YearRunTokens(call.input, 1, 3)

\* "yyy" is one four-digit year token.
C24_Witness ==
    /\ YearCase
    /\ call.input = <<"y", "y", "y">>
    /\ returned.sec.tokens = <<Tok("YearFourDigit")>>

(***************************************************************************)
(* C25.  Commas of a section with date/time tokens.                        *)
(***************************************************************************)
CommaCase == SectionDone /\ call.input \in SectionStrings /\ returned.ok

HasDatetimeToken(toks) == \E j \in 1..Len(toks) : is_datetime_placeholder(toks[j])

CountKind(toks, kind) == Cardinality({j \in 1..Len(toks) : toks[j].k = kind})

C30_MetadataAgrees ==
    (SectionDone /\ returned.ok) =>
        LET sec == returned.sec
            toks == sec.tokens
            dp == FirstDecimalPoint(toks)
            ph == {j \in 1..Len(toks) : toks[j].k \in DigitPlaceholders}
        IN /\ sec.num_integer_part_tokens = Cardinality({j \in ph : dp = 0 \/ j < dp})
           /\ sec.num_fractional_part_tokens = Cardinality({j \in ph : dp > 0 /\ j > dp})
           /\ sec.has_datetime <=> HasDatetimeToken(toks)
           /\ sec.has_text_format <=> CountKind(toks, "TextValue") > 0
           /\ sec.fixed_denominator.some => sec.has_fraction
           /\ sec.is_text_section <=> call.section_index = 3

\* "0.0@" as the fourth section: one integer and one fractional
\* placeholder, a text token, no date.
C30_Witness ==
    /\ SectionDone /\ returned.ok
    /\ call.input = <<"0", ".", "0", "@">> /\ call.section_index = 3
    /\ returned.sec.num_integer_part_tokens = 1
    /\ returned.sec.num_fractional_part_tokens = 1
    /\ returned.sec.has_text_format /\ returned.sec.is_text_section

(***************************************************************************)
(* Rounding of the time of day in the point-in-time renderer.  The time    *)
(* of the call is taken as whole seconds of its day plus r/q of a second;  *)
(* the texts below are built from it without the renderer.                 *)
(***************************************************************************)
TimeCase == DatetimeDone /\ call.value \in TimeValues /\ call.tokens \in TimeSections

\* The day (counted from 1900-01-01) and second of the call's time.
Unrounded ==
    [days |-> call.value.i - 2, secs |-> SecondsOfDay(call.value.f).secs]

\* The same to the nearest whole second, a half going up.
NearestSecond ==
    LET t == SecondsOfDay(call.value.f)
        s == IF 2 * t.r >= t.q THEN t.secs + 1 ELSE t.secs
    IN IF s = 86400 THEN [days |-> call.value.i - 1, secs |-> 0]
       ELSE [days |-> call.value.i - 2, secs |-> s]

ClockText(secs) ==
    Pad2(secs \div 3600) \o <<":">> \o Pad2((secs \div 60) % 60) \o <<":">> \o Pad2(secs % 60)

MeridiemText(secs) ==
    LET h == secs \div 3600
    IN to_string(IF h % 12 = 0 THEN 12 ELSE h % 12) \o <<":">> \o Pad2((secs \div 60) % 60)
           \o <<":">> \o Pad2(secs % 60) \o (IF h < 12 THEN <<" ","A","M">> ELSE <<" ","P","M">>)

\* The first n digits of the fraction of a second of the call's time.
LeadingDigits(n) ==
    LET t == SecondsOfDay(call.value.f)
        d == to_string((t.r * Pow10(n)) \div t.q)
    IN [j \in 1..(n - Len(d)) |-> "0"] \o d

HalfSecondOrMore == 2 * SecondsOfDay(call.value.f).r >= SecondsOfDay(call.value.f).q

\* C26: a section without fractional-second placeholders shows the date,
\* hour, minute, second and AM/PM of the time rounded to the nearest whole
\* second, halves up, the carry reaching the date; a section with them
\* shows the fields of the unrounded time and the leading digits of its
\* fraction of a second, truncated.
C26_RoundedOrTruncated ==
    TimeCase =>
        /\ call.tokens = ClockSection =>
               returned.out = IsoText(DateOf(NearestSecond.days)) \o <<" ">>
                                  \o ClockText(NearestSecond.secs)
        /\ call.tokens = MeridiemSection =>
               returned.out = IsoText(DateOf(NearestSecond.days)) \o <<" ">>
                                  \o MeridiemText(NearestSecond.secs)
        /\ call.tokens = MillisSection =>
               returned.out = ClockText(Unrounded.secs) \o <<".">> \o LeadingDigits(3)
        /\ call.tokens = TenthsSection =>
               returned.out = IsoText(DateOf(Unrounded.days)) \o <<" ">>
                                  \o ClockText(Unrounded.secs) \o <<".">> \o LeadingDigits(1)

\* Less than half a second before midnight of 2024-12-31, shown as
\* midnight of the next day.
C26_Witness ==
    /\ TimeCase
    /\ call.tokens = ClockSection
    /\ call.value.i = 45657
    /\ SecondsOfDay(call.value.f).secs = 86399
    /\ HalfSecondOrMore
    /\ returned.out = <<"2","0","2","5","-","0","1","-","0","1"," ",
                        "0","0",":","0","0",":","0","0">>

(***************************************************************************)
(* Calls of format_integer_like_segment: the decimal digits of every value *)
(* up to MaxSegmentValue and of two longer ones, and three digit strings   *)
(* with leading zeros, under every sequence of up to MaxPlaceholders       *)
(* placeholders 0, # and ?.  The integer part is passed with the flag set  *)
(* when it is zero; numerators and denominators with the flag unset.       *)
(***************************************************************************)
MaxSegmentValue == 130
MaxPlaceholders == 4

PlaceholderKinds == {"DigitOrZero", "DigitIfNeeded", "DigitOrSpace"}

PlaceholderRuns == {[j \in 1..Len(q) |-> Tok(q[j])] : q \in SeqsUpTo(PlaceholderKinds, MaxPlaceholders)}

SegmentDigits ==
    {to_string(v) : v \in (0..MaxSegmentValue) \cup {1234, 12345}}
        \cup {<<"0","0","7">>, <<"0","1","0">>, <<"0","0">>}

SegmentCalls ==
    {[digits_str |-> d, placeholders |-> ps, actual_value_is_zero |-> z] :
        d \in SegmentDigits, ps \in PlaceholderRuns, z \in BOOLEAN}

InitSegment ==
    /\ pc = "segment"
    /\ call \in SegmentCalls
    /\ call.actual_value_is_zero => call.digits_str = <<"0">>
    /\ returned = None /\ LOCALE_CONTEXT = None
    /\ input = <<>> /\ compiled = None /\ tokens = <<>> /\ resolved = <<>>
    /\ number = NoNumber /\ rendered = NotRendered
    /\ value = F(0) /\ format = None /\ selected = "none"

FormatIntegerLikeSegment ==
    /\ pc = "segment"
    /\ returned' = format_integer_like_segment(call.digits_str, call.placeholders,
                                                call.actual_value_is_zero)
    /\ pc' = "segment_done"
    /\ UNCHANGED <<call, LOCALE_CONTEXT>>
    /\ UNCHANGED <<parseVars, selVars, renderVars>>

NextSegment == FormatIntegerLikeSegment

SpecSegment == InitSegment /\ [][NextSegment]_vars

SegmentDone == pc = "segment_done"

PlaceholdersAll(kind) ==
    \A j \in 1..Len(call.placeholders) : call.placeholders[j].k = kind

\* A nonzero digit string without leading zeros under placeholders of one
\* kind.
UniformCase ==
    /\ SegmentDone
    /\ ~call.actual_value_is_zero
    /\ Head(call.digits_str) # "0"
    /\ \E kind \in PlaceholderKinds : PlaceholdersAll(kind)

PaddedWith(ch) ==
    [j \in 1..(Len(call.placeholders) - Len(call.digits_str)) |-> ch] \o call.digits_str

\* C27: a nonzero digit string d under n placeholders of one kind comes out
\* in full when len(d) >= n, else left-padded with "0" to n under "0",
\* with spaces to n under "?", and unpadded under "#"; a zero value gives
\* the empty string under "#" only and shows a "0" under any "0".
C27_PlaceholderRules ==
    /\ UniformCase =>
          IF Len(call.digits_str) >= Len(call.placeholders) THEN returned = call.digits_str
          ELSE /\ PlaceholdersAll("DigitOrZero") => returned = PaddedWith("0")
               /\ PlaceholdersAll("DigitOrSpace") => returned = PaddedWith(" ")
               /\ PlaceholdersAll("DigitIfNeeded") => returned = call.digits_str
    /\ SegmentDone /\ call.actual_value_is_zero =>
          /\ PlaceholdersAll("DigitIfNeeded") => returned = <<>>
          /\ (\E j \in 1..Len(call.placeholders) : call.placeholders[j].k = "DigitOrZero")
                 => CountOf(returned, "0") >= 1

\* 12345 under three placeholders, no digit dropped.
C27_Witness ==
    /\ UniformCase
    /\ Len(call.placeholders) = 3
    /\ call.digits_str = <<"1","2","3","4","5">>
    /\ returned = call.digits_str

\* The text without its spaces.
WithoutSpaces(chars) == SelectSeq(chars, LAMBDA ch : ch # " ")

MixedCase == SegmentDone /\ ~call.actual_value_is_zero

\* C28: with the padding spaces removed the output reads the number of
\* the input, whatever the mix of placeholders: the digits keep their
\* order.
C28_DigitsKeepOrder ==
    MixedCase =>
        TrimStart(WithoutSpaces(returned), "0") = TrimStart(call.digits_str, "0")

(***************************************************************************)
(* Day parts and dates under "yyyy-mm-dd".                                 *)
(***************************************************************************)
DayPartCase == SerialCase /\ Serial >= 1

\* The day of a day part in the calendar whose 1900 has a 29th of February.
CalendarDay(s) ==
    IF s = 60 THEN <<"1","9","0","0","-","0","2","-","2","9">>
    ELSE IF s < 60 THEN IsoText(DateOf(s - 1)) ELSE IsoText(DateOf(s - 2))

\* C29: under "yyyy-mm-dd" no value of another day part, with or without
\* a time of day, renders the date the call's value renders, and the date
\* rendered is the day-part-th day counted from 1900-01-01 with 1900-02-29
\* as day 60.
C29_DayPartsOneToOne ==
    DayPartCase =>
        /\ \A v \in SerialValues :
               v.i >= 1 /\ v.i # Serial =>
                   format_datetime(v, IsoSection, None).out # returned.out
        /\ returned.out = CalendarDay(Serial)

====
